---- MODULE Spec2Model ----
(***************************************************************************)
(* Event-service wrappers of the ServiceExample_Events plugin.             *)
(*                                                                         *)
(*   PluginEventService          src/src/services/eventService.ts          *)
(*   ServiceExampleEventService  src/unnamed/part_007                      *)
(*                                                                         *)
(* Both wrap the host's EventServiceBridge.  The Bridge is the host's      *)
(* code; it is modelled as an environment by its declared interface: a     *)
(* call may return or throw, a listener is identified by (moduleId,        *)
(* function reference), and a delivery invokes every listener of the       *)
(* channel once.                                                           *)
(***************************************************************************)
EXTENDS Integers, Sequences, FiniteSets, TLC

VARIABLES
    \* PluginEventService (one instance)
    serviceBridge,      \* the bridge handed to setServiceBridge, or NoBridge
    isConnected,
    messageCount,
    subscriptions,      \* Set<Function>, in insertion order
    \* ServiceExampleEventService (one instance)
    eventService,       \* the bridge handed to initialize, or NoBridge
    messageQueue,
    subscribers,        \* Map moduleId -> Set<wrappedCallback>, insertion order
    performanceMetrics,
    \* PluginEventService of the minimal variant (one instance)
    minimalServiceBridge,   \* the bridge handed to its setServiceBridge, or NoBridge
    \* the host Bridge(s)
    bridgeListeners,    \* per bridge: set of [moduleId, fn]
    \* observation of the last call
    last,
    \* history: wrappers created so far; the targets of the envelopes enqueued
    \* since the queue was last cleared, in enqueue order
    wrapperCount,
    enqueued,
    \* several wrappers on one Bridge: the instances created so far (each a record of its
    \* own fields), the instance the last call was made on, and (history) the message ids
    \* of the envelopes handed to the Bridge so far
    instances,
    lastInstance,
    sentIds,
    \* the monitoring log of ServiceExampleEventService: its entries, the number of
    \* entries pushed so far (history), and whether the run follows the log (in the runs
    \* that do not, the log is left out of the model and stays as constructed)
    eventLog,
    logged,
    monitoring,
    \* the components of the plugin: this.state of MessageQueue
    messageQueueState,
    \* LeftChat and RightChat (their state, their wrappers, and the messages the Bridge
    \* has accepted for them and not yet delivered)
    chatState,
    \* BroadcastCenter (its state and its running confirmation timers)
    broadcastState

vars == <<serviceBridge, isConnected, messageCount, subscriptions,
          eventService, messageQueue, subscribers, performanceMetrics,
          minimalServiceBridge, bridgeListeners, last, wrapperCount, enqueued,
          instances, lastInstance, sentIds, eventLog, logged, monitoring,
          messageQueueState, chatState, broadcastState>>

pesVars  == <<serviceBridge, isConnected, messageCount, subscriptions>>
seesVars == <<eventService, messageQueue, subscribers, performanceMetrics,
              wrapperCount, enqueued, eventLog, logged, monitoring>>
logVars  == <<eventLog, logged, monitoring>>
minVars  == <<minimalServiceBridge>>
instVars == <<instances, lastInstance, sentIds>>
uiVars   == <<messageQueueState, chatState, broadcastState>>
\* everything but the components
wrapperVars == <<pesVars, seesVars, minVars, instVars, bridgeListeners>>

----------------------------------------------------------------------------
\* Bounds of the model.
MaxSends == 2        \* cap on messageCount
MaxMetrics == 3      \* cap on messagesSent + messagesReceived + errorCount
\* runs that exercise the queue: few subscriptions, enough sends to evict
QueueRunSubs == 1        \* wrappedCallbacks created by the instance
QueueRunEnqueued == 3    \* envelopes enqueued between two clears of the queue
\* runs that exercise the registry: more subscriptions, a short queue
SubsRunSubs == 2
SubsRunEnqueued == 1

\* Capacity of the replay queue.  addToQueue fixes it at 1000; the model runs the
\* same drop-oldest code with a capacity that a bounded run can exceed.
maxQueueSize == 2

\* Capacity of the monitoring log.  logEvent fixes it at 500; the model runs the same
\* code with a small capacity.
maxLogSize == 2
MaxLogged == 4       \* cap on the entries pushed to the log in a run that follows it

----------------------------------------------------------------------------
\* JavaScript values, as far as the wrappers look at them.
JSUndefined  == [ty |-> "undefined", v |-> "undefined"]
JSNull       == [ty |-> "object",    v |-> "null"]
JSTrue       == [ty |-> "boolean",   v |-> "true"]
JSFalse      == [ty |-> "boolean",   v |-> "false"]
JSString(s)  == [ty |-> "string",    v |-> s]
JSNumber(s)  == [ty |-> "number",    v |-> s]
JSFunction(f) == [ty |-> "function", v |-> f]
JSObject(type) == [ty |-> "object",  v |-> "object", type |-> type]
\* an object with further own properties besides `type`
JSObjectWith(type, props) == [ty |-> "object", v |-> "object", type |-> type, props |-> props]

typeof(x) == x.ty

\* ToBoolean
Truthy(x) ==
    CASE x.ty = "undefined" -> FALSE
      [] x.ty = "boolean"   -> x.v = "true"
      [] x.ty = "string"    -> x.v # ""
      [] x.ty = "number"    -> x.v # "0"
      [] x.ty = "object"    -> x.v # "null"
      [] OTHER              -> TRUE

\* message.type ; undefined on a value that has no such property
TypeOf(message) ==
    IF message.ty = "object" /\ message.v = "object" THEN message.type
    ELSE JSUndefined

\* the own properties other than `type` that a spread of the value copies
OwnProps(message) ==
    IF message.ty = "object" /\ "props" \in DOMAIN message THEN message.props ELSE <<>>

\* { ...message }: `type` reads as undefined where the value has no such property
Spread(message) == [type |-> TypeOf(message)] @@ OwnProps(message)

EventOptions(remote, persist) == [remote |-> remote, persist |-> persist]
DefaultOptions == EventOptions(JSFalse, JSUndefined)

----------------------------------------------------------------------------
\* Identities and inputs.
NoBridge == "none"
Bridges  == {"bridge1"}
\* the bridges of the host: the one the runs use, and the one the host hands out when
\* it replaces its event service
AllBridges == Bridges \cup {"bridge2"}

PesPluginId == "ServiceExample_Events"
PesModuleId == "m1"
SeesPluginId == "ServiceExample_Events"
SeesModuleId == "m1"

Callbacks == {JSFunction("cb1"), JSFunction("cb2")}

\* a message on which the caller has set the fields the wrappers stamp
CallerStamped ==
    JSObjectWith(JSString("ping"),
                 [id |-> JSString("caller-id"),
                  timestamp |-> JSString("caller-timestamp"),
                  source |-> JSString("caller-source"),
                  _source |-> JSString("caller-source"),
                  _metadata |-> JSString("caller-metadata")])

TargetInputs  == {JSString("m1"), JSString("m2"), JSString(""), JSNumber("7")}
MessageInputs == {JSObject(JSString("ping")), JSObject(JSUndefined),
                  JSObject(JSString("")), JSObject(JSNumber("7")),
                  JSNull, JSString("ping"), CallerStamped}
OptionInputs  == {DefaultOptions,
                  EventOptions(JSFalse, JSTrue),
                  EventOptions(JSTrue, JSFalse),
                  EventOptions(JSString("yes"), JSUndefined),
                  EventOptions(JSFalse, JSString("yes"))}
CallbackInputs == Callbacks \cup {JSString("cb1")}

\* what callers hand to ServiceExampleEventService, which validates nothing
SeesCallbacks     == {JSFunction("cb1")}
SeesSendInputs ==
    {<<JSString("m1"), JSObject(JSString("ping")), DefaultOptions>>,
     <<JSString("m1"), JSObject(JSString("ping")), EventOptions(JSFalse, JSTrue)>>,
     <<JSString("m2"), JSObject(JSString("ping")), EventOptions(JSFalse, JSTrue)>>,
     <<JSString("m2"), JSObject(JSUndefined), DefaultOptions>>,
     <<JSString("m2"), CallerStamped, DefaultOptions>>}
SeesOptionInputs  == {DefaultOptions, EventOptions(JSFalse, JSTrue)}
\* subscribeToMessages(callback, options), with well-formed arguments and, for the runs
\* that look at the arguments, with malformed options as well
SeesSubscribeInputs == SeesCallbacks \X SeesOptionInputs
AnySubscribeInputs ==
    SeesSubscribeInputs \cup {<<JSFunction("cb1"), EventOptions(JSString("yes"), JSUndefined)>>}
\* whether the Bridge invokes the function it is given while subscribeToMessages is
\* still running (it then delivers a message of its own): never, or either way
NoDeliveryInSubscribe == {FALSE}
MayDeliverInSubscribe == BOOLEAN
\* broadcastMessage(targetModuleIds, message, options)
SeesBroadcastInputs ==
    {<<<<"m1">>, JSObject(JSString("ping")), DefaultOptions>>,
     <<<<"m1", "m2">>, JSObject(JSString("ping")), DefaultOptions>>,
     <<<<"m2", "m1", "m2">>, JSObject(JSString("ping")), DefaultOptions>>}
\* the random suffix of a broadcast id: two values, so that two broadcasts may draw
\* different suffixes or the same one
BroadcastRandomSuffixes == {"r", "s"}
Timestamps     == {"t"}
RandomSuffixes == {"r"}
\* whether a Bridge call may throw: either outcome, or (for the runs with a Bridge whose
\* unsubscribeFromMessages is reliable) only a normal return
MayThrow    == BOOLEAN
NeverThrows == {FALSE}
\* what the host delivers on a channel
DeliveredMessages == {JSObject(JSString("pong"))}
Channels == {"m1", "m2", "default"}

----------------------------------------------------------------------------
\* EventValidator
validateMessage(message) ==
    IF ~Truthy(message) \/ typeof(message) # "object" THEN FALSE
    ELSE IF ~Truthy(TypeOf(message)) \/ typeof(TypeOf(message)) # "string" THEN FALSE
    ELSE TRUE

validateOptions(options) ==
    IF typeof(options.remote) # "boolean" THEN FALSE
    ELSE IF options.persist # JSUndefined /\ typeof(options.persist) # "boolean" THEN FALSE
    ELSE TRUE

----------------------------------------------------------------------------
\* Helpers for insertion-ordered Sets and call records.
Range(s) == {s[i] : i \in 1..Len(s)}

\* Set.prototype.add
SetAdd(s, x) == IF x \in Range(s) THEN s ELSE Append(s, x)

\* a delete that drops the newest element when x is not in the Set
SetDelete_dropsNewest(s, x) ==
    IF x \in Range(s) THEN SelectSeq(s, LAMBDA y : y # x)
    ELSE SubSeq(s, 1, Len(s) - 1)

\* Set.prototype.delete
SetDelete(s, x) == SelectSeq(s, LAMBDA y : y # x)

\* one invocation of a Bridge method, with its outcome
BridgeCall(method, bridge, moduleId, arg, options, threw) ==
    [method |-> method, bridge |-> bridge, moduleId |-> moduleId,
     arg |-> arg, options |-> options, threw |-> threw]

\* what a call did: its error code ("none" when it returned normally), the
\* Bridge methods it invoked and the callback invocations it caused
Outcome(op, variant, args, code, calls, invoked) ==
    [op |-> op, variant |-> variant, args |-> args, code |-> code,
     bridgeCalls |-> calls, invoked |-> invoked]

\* Bridge.subscribeToMessages / unsubscribeFromMessages on the listener table
BridgeSubscribe(listeners, bridge, moduleId, fn) ==
    [listeners EXCEPT ![bridge] = @ \cup {[moduleId |-> moduleId, fn |-> fn]}]

BridgeUnsubscribe(listeners, bridge, moduleId, fn) ==
    [listeners EXCEPT ![bridge] = @ \ {[moduleId |-> moduleId, fn |-> fn]}]

\* the field initialiser of performanceMetrics (startTime left out)
InitialPerformanceMetrics ==
    [messagesSent |-> 0, messagesReceived |-> 0, totalLatency |-> 0, errorCount |-> 0]

\* performance.now() - startTime around a Bridge call, in the runs of the model
Latencies == {2}

----------------------------------------------------------------------------
\* MessageQueue: this.state as the constructor sets it (the fields the queue handlers
\* read or write; maxQueueSize is 100 in the source)
MessageQueue_maxQueueSize == 2
MessageQueue_constructor ==
    [queuedMessages |-> <<>>, processedMessages |-> <<>>, failedMessages |-> <<>>,
     isProcessing |-> FALSE, isPaused |-> FALSE,
     maxQueueSize |-> MessageQueue_maxQueueSize,
     stats |-> [totalQueued |-> 0, totalProcessed |-> 0, totalFailed |-> 0, queueSize |-> 0]]

\* LeftChat starts enabled, RightChat disabled (props.initialEnabled is not given)
LeftChat_constructor ==
    [isEnabled |-> TRUE, isInitializing |-> TRUE, error |-> "", messageCounter |-> 0,
     connectionStatus |-> "none", eventService |-> NoBridge, subscribed |-> FALSE]

RightChat_constructor ==
    [isEnabled |-> FALSE, isInitializing |-> TRUE, error |-> "", messageCounter |-> 0,
     connectionStatus |-> "disconnected", eventService |-> NoBridge, subscribed |-> FALSE]

Chat_constructor ==
    [left |-> LeftChat_constructor, right |-> RightChat_constructor,
     inFlight |-> [target \in {"left-chat", "right-chat"} |-> <<>>]]

BroadcastCenter_constructor ==
    [selectedTargets |-> <<>>, broadcastMessage |-> "", broadcastHistory |-> <<>>,
     confirmations |-> <<>>, isConfirmationRequired |-> TRUE, error |-> "null",
     stats |-> [totalBroadcasts |-> 0, totalTargets |-> 0, successfulDeliveries |-> 0,
                failedDeliveries |-> 0, averageDeliveryTime |-> 0],
     mounted |-> FALSE, generated |-> 0, delivered |-> 0, timers |-> {}]

Constructed ==
    /\ serviceBridge = NoBridge
    /\ isConnected = FALSE
    /\ messageCount = 0
    /\ subscriptions = <<>>
    /\ eventService = NoBridge
    /\ messageQueue = <<>>
    /\ subscribers = <<>>
    /\ performanceMetrics = InitialPerformanceMetrics
    /\ minimalServiceBridge = NoBridge
    /\ bridgeListeners = [b \in AllBridges |-> {}]
    /\ last = Outcome("constructor", "none", <<>>, "none", <<>>, <<>>)
    /\ wrapperCount = 0
    /\ enqueued = <<>>
    /\ instances = <<>>
    /\ lastInstance = 0
    /\ sentIds = {}
    /\ eventLog = <<>>
    /\ logged = 0
    /\ messageQueueState = MessageQueue_constructor
    /\ chatState = Chat_constructor
    /\ broadcastState = BroadcastCenter_constructor

Init == Constructed /\ monitoring = FALSE

\* the same state, in a run that follows the monitoring log
InitMonitoring == Constructed /\ monitoring = TRUE

----------------------------------------------------------------------------
\* PluginEventService

isServiceAvailable == serviceBridge # NoBridge /\ isConnected

\* setServiceBridge without its null check
PluginEventService_setServiceBridge_noNullCheck ==
    \E bridge \in Bridges \cup {NoBridge} :
        /\ serviceBridge' = bridge
        /\ isConnected' = TRUE
        /\ last' = Outcome("setServiceBridge", "PluginEventService", <<bridge>>,
                           "none", <<>>, <<>>)
        /\ UNCHANGED <<messageCount, subscriptions, seesVars, minVars, instVars, bridgeListeners, uiVars>>

\* setServiceBridge(bridge); bridge may be null
SetServiceBridgeTo(bridges) ==
    \E bridge \in bridges :
        /\ IF bridge = NoBridge
           THEN /\ last' = Outcome("setServiceBridge", "PluginEventService", <<bridge>>,
                                   "INVALID_BRIDGE", <<>>, <<>>)
                /\ UNCHANGED <<serviceBridge, isConnected>>
           ELSE /\ serviceBridge' = bridge
                /\ isConnected' = TRUE
                /\ last' = Outcome("setServiceBridge", "PluginEventService", <<bridge>>,
                                   "none", <<>>, <<>>)
        /\ UNCHANGED <<messageCount, subscriptions, seesVars, minVars, instVars, bridgeListeners, uiVars>>

PluginEventService_setServiceBridge == SetServiceBridgeTo(Bridges \cup {NoBridge})

\* an envelope in which the fields of the caller's message are spread last
messageWithSource_spreadLast(message, options, n) ==
    Spread(message)
    @@ [_source |-> [pluginId |-> PesPluginId, moduleId |-> PesModuleId],
        _metadata |-> [messageId |-> <<PesPluginId, PesModuleId, n>>, options |-> options]]

\* the message handed to the Bridge by PluginEventService.sendMessage
messageWithSource(message, options, n) ==
    [_source |-> [pluginId |-> PesPluginId, moduleId |-> PesModuleId],
     _metadata |-> [messageId |-> <<PesPluginId, PesModuleId, n>>, options |-> options]]
    @@ Spread(message)

\* the validation steps with the message checked before the target
SendValidationCode_messageFirst(targetModuleId, message, options) ==
    IF ~isServiceAvailable THEN "SERVICE_UNAVAILABLE"
    ELSE IF ~validateMessage(message) THEN "INVALID_MESSAGE"
    ELSE IF ~Truthy(targetModuleId) \/ typeof(targetModuleId) # "string" THEN "INVALID_TARGET"
    ELSE IF ~validateOptions(options) THEN "INVALID_OPTIONS"
    ELSE "none"

\* a validation that turns away well-formed remote sends
SendValidationCode_rejectsRemote(targetModuleId, message, options) ==
    IF ~isServiceAvailable THEN "SERVICE_UNAVAILABLE"
    ELSE IF ~Truthy(targetModuleId) \/ typeof(targetModuleId) # "string" THEN "INVALID_TARGET"
    ELSE IF ~validateMessage(message) THEN "INVALID_MESSAGE"
    ELSE IF ~validateOptions(options) \/ Truthy(options.remote) THEN "INVALID_OPTIONS"
    ELSE "none"

\* the error code of the validation steps 1 and 2 of sendMessage, "none" when they pass
SendValidationCode(targetModuleId, message, options) ==
    IF ~isServiceAvailable THEN "SERVICE_UNAVAILABLE"
    ELSE IF ~Truthy(targetModuleId) \/ typeof(targetModuleId) # "string" THEN "INVALID_TARGET"
    ELSE IF ~validateMessage(message) THEN "INVALID_MESSAGE"
    ELSE IF ~validateOptions(options) THEN "INVALID_OPTIONS"
    ELSE "none"

PluginEventService_sendMessage ==
    \E targetModuleId \in TargetInputs, message \in MessageInputs, options \in OptionInputs :
        LET code == SendValidationCode(targetModuleId, message, options)
            args == <<targetModuleId, message, options>>
            env  == messageWithSource(message, options, messageCount + 1)
        IN
        /\ messageCount < MaxSends
        /\ IF code # "none"
           THEN /\ last' = Outcome("sendMessage", "PluginEventService", args, code, <<>>, <<>>)
                /\ UNCHANGED messageCount
           ELSE \E bridgeThrows \in BOOLEAN :
                /\ messageCount' = messageCount + 1
                /\ last' = Outcome("sendMessage", "PluginEventService", args,
                                   IF bridgeThrows THEN "SEND_FAILED" ELSE "none",
                                   <<BridgeCall("sendMessage", serviceBridge, targetModuleId.v,
                                                env, options, bridgeThrows)>>, <<>>)
        /\ UNCHANGED <<serviceBridge, isConnected, subscriptions, seesVars, minVars, instVars, bridgeListeners, uiVars>>

\* the error code of the validation steps 1 to 3 of subscribeToMessages
SubscribeValidationCode(callback, options) ==
    IF ~isServiceAvailable THEN "SERVICE_UNAVAILABLE"
    ELSE IF typeof(callback) # "function" THEN "INVALID_CALLBACK"
    ELSE IF ~validateOptions(options) THEN "INVALID_OPTIONS"
    ELSE "none"

PluginEventService_subscribeToMessages ==
    \E callback \in CallbackInputs, options \in OptionInputs :
        LET code == SubscribeValidationCode(callback, options)
            args == <<callback, options>>
        IN
        IF code # "none"
        THEN /\ last' = Outcome("subscribeToMessages", "PluginEventService", args, code, <<>>, <<>>)
             /\ UNCHANGED <<pesVars, minVars, instVars, seesVars, bridgeListeners, uiVars>>
        ELSE \E bridgeThrows \in BOOLEAN :
             /\ subscriptions' = SetAdd(subscriptions, callback)
             /\ last' = Outcome("subscribeToMessages", "PluginEventService", args,
                                IF bridgeThrows THEN "SUBSCRIBE_FAILED" ELSE "none",
                                <<BridgeCall("subscribeToMessages", serviceBridge, PesModuleId,
                                             callback, options, bridgeThrows)>>, <<>>)
             /\ bridgeListeners' = IF bridgeThrows THEN bridgeListeners
                                   ELSE BridgeSubscribe(bridgeListeners, serviceBridge,
                                                        PesModuleId, callback)
             /\ UNCHANGED <<serviceBridge, isConnected, messageCount, seesVars, minVars, instVars, uiVars>>

PluginEventService_unsubscribeFromMessages(unsubscribeThrows) ==
    \E callback \in Callbacks, options \in OptionInputs :
        LET args == <<callback, options>> IN
        IF ~isServiceAvailable
        THEN /\ last' = Outcome("unsubscribeFromMessages", "PluginEventService", args, "none",
                                <<>>, <<>>)
             /\ UNCHANGED <<pesVars, minVars, instVars, seesVars, bridgeListeners, uiVars>>
        ELSE \E bridgeThrows \in unsubscribeThrows :
             /\ subscriptions' = SetDelete(subscriptions, callback)
             /\ last' = Outcome("unsubscribeFromMessages", "PluginEventService", args, "none",
                                <<BridgeCall("unsubscribeFromMessages", serviceBridge, PesModuleId,
                                             callback, options, bridgeThrows)>>, <<>>)
             /\ bridgeListeners' = IF bridgeThrows THEN bridgeListeners
                                   ELSE BridgeUnsubscribe(bridgeListeners, serviceBridge,
                                                          PesModuleId, callback)
             /\ UNCHANGED <<serviceBridge, isConnected, messageCount, seesVars, minVars, instVars, uiVars>>

\* a teardown that stops after the first callback
UnsubscribeEach_firstOnly(listeners, bridge, moduleId, cbs, throwing) ==
    IF cbs = <<>> \/ Head(cbs) \in throwing THEN listeners
    ELSE BridgeUnsubscribe(listeners, bridge, moduleId, Head(cbs))

\* the listener table after unsubscribing cbs[1..n] in order, skipping those that throw
RECURSIVE UnsubscribeEach(_, _, _, _, _)
UnsubscribeEach(listeners, bridge, moduleId, cbs, throwing) ==
    IF cbs = <<>> THEN listeners
    ELSE UnsubscribeEach(
            IF Head(cbs) \in throwing THEN listeners
            ELSE BridgeUnsubscribe(listeners, bridge, moduleId, Head(cbs)),
            bridge, moduleId, Tail(cbs), throwing)

PluginEventService_unsubscribeAll(unsubscribeThrows) ==
    \E throwing \in SUBSET (IF TRUE \in unsubscribeThrows THEN Range(subscriptions) ELSE {}) :
        /\ last' = Outcome("unsubscribeAll", "PluginEventService", <<>>, "none",
                     IF serviceBridge = NoBridge THEN <<>>
                     ELSE [i \in 1..Len(subscriptions) |->
                             BridgeCall("unsubscribeFromMessages", serviceBridge, PesModuleId,
                                        subscriptions[i], JSUndefined,
                                        subscriptions[i] \in throwing)],
                     <<>>)
        /\ bridgeListeners' = IF serviceBridge = NoBridge THEN bridgeListeners
                              ELSE UnsubscribeEach(bridgeListeners, serviceBridge, PesModuleId,
                                                   subscriptions, throwing)
        /\ subscriptions' = <<>>
        /\ UNCHANGED <<serviceBridge, isConnected, messageCount, seesVars, minVars, instVars, uiVars>>

\* a loop over the targets that ends at the first send on which the Bridge throws
AttemptedTargets_stopAtFirstThrow(targetModuleIds, throwing) ==
    LET n == Len(targetModuleIds)
        firstThrow == IF throwing = {} THEN n
                      ELSE CHOOSE i \in throwing : \A j \in throwing : i <= j
    IN SubSeq(targetModuleIds, 1, firstThrow)

\* the targets a broadcast loop reaches when the Bridge throws for those at the indices
\* `throwing`: all of them, as the failure of one send is caught inside the iteration
AttemptedTargets(targetModuleIds, throwing) == targetModuleIds

\* EventSender.handleSendBroadcast: the component sends broadcastData to its two fixed
\* targets through its PluginEventService, each send in a try/catch of its own.  The
\* component's isServiceConnected flag is set after a successful setServiceBridge and
\* may have been cleared since.
broadcastTargets == <<"event-receiver", "event-display">>
broadcastData ==
    JSObjectWith(JSString("broadcast"),
                 [timestamp |-> JSString("caller-timestamp"), isBroadcast |-> JSTrue])

EventSender_handleSendBroadcast ==
    \E isServiceConnected \in (IF isServiceAvailable THEN BOOLEAN ELSE {FALSE}) :
        LET args == <<broadcastTargets, broadcastData, DefaultOptions, isServiceConnected>>
            n == Len(broadcastTargets)
        IN
        /\ IF ~isServiceConnected
           THEN /\ last' = Outcome("handleSendBroadcast", "PluginEventService", args, "none",
                                   <<>>, <<>>)
                /\ UNCHANGED messageCount
           ELSE \E throwing \in SUBSET (1..n) :
                LET attempted == AttemptedTargets(broadcastTargets, throwing) IN
                /\ messageCount + n <= MaxSends
                /\ messageCount' = messageCount + Len(attempted)
                /\ last' = Outcome("handleSendBroadcast", "PluginEventService", args, "none",
                      [i \in 1..Len(attempted) |->
                         BridgeCall("sendMessage", serviceBridge, attempted[i],
                                    messageWithSource(broadcastData, DefaultOptions,
                                                      messageCount + i),
                                    DefaultOptions, i \in throwing)],
                      <<>>)
        /\ UNCHANGED <<serviceBridge, isConnected, subscriptions, seesVars, minVars, instVars,
                       bridgeListeners, uiVars>>

\* getServiceStats(): the statistics PluginEventService reports
getServiceStats ==
    [pluginId |-> PesPluginId, moduleId |-> PesModuleId, isConnected |-> isConnected,
     messagesSent |-> messageCount, activeSubscriptions |-> Len(subscriptions),
     serviceBridgeAvailable |-> serviceBridge # NoBridge]

NextPES(unsubscribeThrows) ==
    \/ PluginEventService_setServiceBridge
    \/ PluginEventService_sendMessage
    \/ EventSender_handleSendBroadcast
    \/ PluginEventService_subscribeToMessages
    \/ PluginEventService_unsubscribeFromMessages(unsubscribeThrows)
    \/ PluginEventService_unsubscribeAll(unsubscribeThrows)

SpecPES == Init /\ [][NextPES(MayThrow)]_vars

\* the same wrapper on a host that replaces its bridge (EventReceiver.componentDidUpdate
\* calls setServiceBridge again when props.services.event changes)
NextBridgeSwitch ==
    \/ SetServiceBridgeTo(AllBridges \cup {NoBridge})
    \/ PluginEventService_subscribeToMessages
    \/ PluginEventService_unsubscribeFromMessages(MayThrow)
    \/ PluginEventService_unsubscribeAll(MayThrow)

SpecBridgeSwitch == Init /\ [][NextBridgeSwitch]_vars

----------------------------------------------------------------------------
\* PluginEventService of the minimal variant: no validation, no tracking, and an
\* exception of the Bridge propagates to the caller as it is ("uncaught").

MinimalPluginId == "ServiceExample_Events"
MinimalModuleId == "default"

MinimalPluginEventService_setServiceBridge ==
    \E bridge \in Bridges \cup {NoBridge} :
        /\ minimalServiceBridge' = bridge
        /\ last' = Outcome("setServiceBridge", "MinimalPluginEventService", <<bridge>>,
                           "none", <<>>, <<>>)
        /\ UNCHANGED <<pesVars, seesVars, instVars, bridgeListeners, uiVars>>

\* the message handed to the Bridge by the minimal sendMessage
MinimalMessageWithSource(message) ==
    [_source |-> [pluginId |-> MinimalPluginId, moduleId |-> MinimalModuleId]]
    @@ Spread(message)

MinimalPluginEventService_sendMessage ==
    \E targetModuleId \in TargetInputs, message \in MessageInputs, options \in OptionInputs :
        LET args == <<targetModuleId, message, options>> IN
        /\ IF minimalServiceBridge = NoBridge
           THEN last' = Outcome("sendMessage", "MinimalPluginEventService", args, "none",
                                <<>>, <<>>)
           ELSE \E bridgeThrows \in BOOLEAN :
                last' = Outcome("sendMessage", "MinimalPluginEventService", args,
                                IF bridgeThrows THEN "uncaught" ELSE "none",
                                <<BridgeCall("sendMessage", minimalServiceBridge,
                                             targetModuleId.v, MinimalMessageWithSource(message),
                                             options, bridgeThrows)>>, <<>>)
        /\ UNCHANGED <<pesVars, seesVars, minVars, instVars, bridgeListeners, uiVars>>

MinimalPluginEventService_subscribeToMessages ==
    \E callback \in Callbacks, options \in OptionInputs :
        LET args == <<callback, options>> IN
        /\ IF minimalServiceBridge = NoBridge
           THEN /\ last' = Outcome("subscribeToMessages", "MinimalPluginEventService", args,
                                   "none", <<>>, <<>>)
                /\ UNCHANGED bridgeListeners
           ELSE \E bridgeThrows \in BOOLEAN :
                /\ last' = Outcome("subscribeToMessages", "MinimalPluginEventService", args,
                                   IF bridgeThrows THEN "uncaught" ELSE "none",
                                   <<BridgeCall("subscribeToMessages", minimalServiceBridge,
                                                MinimalModuleId, callback, options,
                                                bridgeThrows)>>, <<>>)
                /\ bridgeListeners' = IF bridgeThrows THEN bridgeListeners
                                      ELSE BridgeSubscribe(bridgeListeners, minimalServiceBridge,
                                                           MinimalModuleId, callback)
        /\ UNCHANGED <<pesVars, seesVars, minVars, instVars, uiVars>>

MinimalPluginEventService_unsubscribeFromMessages(unsubscribeThrows) ==
    \E callback \in Callbacks, options \in OptionInputs :
        LET args == <<callback, options>> IN
        /\ IF minimalServiceBridge = NoBridge
           THEN /\ last' = Outcome("unsubscribeFromMessages", "MinimalPluginEventService",
                                   args, "none", <<>>, <<>>)
                /\ UNCHANGED bridgeListeners
           ELSE \E bridgeThrows \in unsubscribeThrows :
                /\ last' = Outcome("unsubscribeFromMessages", "MinimalPluginEventService",
                                   args, IF bridgeThrows THEN "uncaught" ELSE "none",
                                   <<BridgeCall("unsubscribeFromMessages", minimalServiceBridge,
                                                MinimalModuleId, callback, options,
                                                bridgeThrows)>>, <<>>)
                /\ bridgeListeners' = IF bridgeThrows THEN bridgeListeners
                                      ELSE BridgeUnsubscribe(bridgeListeners,
                                                             minimalServiceBridge,
                                                             MinimalModuleId, callback)
        /\ UNCHANGED <<pesVars, seesVars, minVars, instVars, uiVars>>

NextMinimal(unsubscribeThrows) ==
    \/ MinimalPluginEventService_setServiceBridge
    \/ MinimalPluginEventService_sendMessage
    \/ MinimalPluginEventService_subscribeToMessages
    \/ MinimalPluginEventService_unsubscribeFromMessages(unsubscribeThrows)

----------------------------------------------------------------------------
\* ServiceExampleEventService

\* utils generateId(prefix): `${prefix}-${timestamp}-${random}`
generateId(prefix, timestamp, random) == <<prefix, timestamp, random>>

\* the counters stay within the bound of the model
WithinMetricsBound(metrics) ==
    metrics.messagesSent + metrics.messagesReceived + metrics.errorCount <= MaxMetrics

\* messagesSent++ and totalLatency += latency, for n sends of the same latency
AfterSend(metrics, n, latency) ==
    [metrics EXCEPT !.messagesSent = @ + n, !.totalLatency = @ + n * latency]

\* logError: counts the error
logError(metrics) == [metrics EXCEPT !.errorCount = @ + 1]

\* catch blocks of the public methods: errorCount++ followed by logError
CatchError(metrics) == logError([metrics EXCEPT !.errorCount = @ + 1])

\* an entry of the log: its eventType ("error" for the entries logError pushes) and its
\* position in the run
LogEntry(n, eventType) == [n |-> n, eventType |-> eventType]

\* logEvent: push, then keep the last maxLogSize entries
logEvent(log, entry) ==
    LET pushed == Append(log, entry) IN
    IF Len(pushed) > maxLogSize
    THEN SubSeq(pushed, Len(pushed) - maxLogSize + 1, Len(pushed))
    ELSE pushed

\* logError, as far as the log goes: push
pushErrorEvent(log, entry) == Append(log, entry)

\* the log after the calls of logEvent (logError for "error") with the eventTypes, in order
RECURSIVE LogAll(_, _, _)
LogAll(log, n, eventTypes) ==
    IF eventTypes = <<>> THEN log
    ELSE LET entry == LogEntry(n + 1, Head(eventTypes)) IN
         LogAll(IF Head(eventTypes) = "error" THEN pushErrorEvent(log, entry)
                ELSE logEvent(log, entry),
                n + 1, Tail(eventTypes))

\* the effect of a handler on the log, given the log it starts from
MonitoredFrom(log, eventTypes) ==
    IF monitoring
    THEN /\ logged + Len(eventTypes) <= MaxLogged
         /\ eventLog' = LogAll(log, logged, eventTypes)
         /\ logged' = logged + Len(eventTypes)
         /\ UNCHANGED monitoring
    ELSE UNCHANGED logVars

Monitored(eventTypes) == MonitoredFrom(eventLog, eventTypes)

\* what one run of a wrappedCallback logs
DeliveryLog(threw) ==
    <<"message.received", IF threw THEN "error" ELSE "message.processed">>

\* what one sendMessage logs once the service is there
SendLog(options, bridgeThrows) ==
    IF bridgeThrows THEN <<"error">>
    ELSE IF Truthy(options.persist) THEN <<"message.sent", "queue.added">>
    ELSE <<"message.sent">>

RECURSIVE Flatten(_)
Flatten(seqs) == IF seqs = <<>> THEN <<>> ELSE Head(seqs) \o Flatten(Tail(seqs))

initialize ==
    \E bridge \in Bridges :
        /\ eventService' = bridge
        /\ last' = Outcome("initialize", "ServiceExampleEventService", <<bridge>>, "none",
                           <<>>, <<>>)
        /\ Monitored(<<"service.initialized">>)
        /\ UNCHANGED <<pesVars, minVars, instVars, messageQueue, subscribers, performanceMetrics,
                       bridgeListeners, wrapperCount, enqueued, uiVars>>

\* the message handed to the Bridge by ServiceExampleEventService.sendMessage
enhancedMessage(message, options, messageId) ==
    [_source |-> [pluginId |-> SeesPluginId, moduleId |-> SeesModuleId],
     _metadata |-> [options |-> options, messageId |-> messageId]]
    @@ Spread(message)

\* a queue entry: the stored message, tagged with the target it was sent to
\* and its rank among the envelopes enqueued since the last clear (history)
QueueEntry(message, target, seq) == [message |-> message, target |-> target, seq |-> seq]

\* addToQueue keeping the first maxQueueSize entries instead of the last
addToQueue_keepOldest(queue, entry) ==
    LET pushed == Append(queue, entry) IN
    IF Len(pushed) > maxQueueSize THEN SubSeq(pushed, 1, maxQueueSize) ELSE pushed

\* addToQueue: push, then keep the last maxQueueSize
addToQueue(queue, entry) ==
    LET pushed == Append(queue, entry) IN
    IF Len(pushed) > maxQueueSize
    THEN SubSeq(pushed, Len(pushed) - maxQueueSize + 1, Len(pushed))
    ELSE pushed

\* sendMessage enqueueing before it delegates to the Bridge
ReachesAddToQueue_beforeDelegation(options, bridgeThrows) == Truthy(options.persist)

\* whether sendMessage reaches addToQueue: the Bridge call returned (a throw
\* jumps to the catch) and options.persist is truthy
ReachesAddToQueue(options, bridgeThrows) == ~bridgeThrows /\ Truthy(options.persist)

ServiceExampleEventService_sendMessage(maxEnqueued) ==
    \E args \in SeesSendInputs :
        LET targetModuleId == args[1]
            message == args[2]
            options == args[3]
        IN
        IF eventService = NoBridge
        THEN /\ performanceMetrics' = logError(performanceMetrics)
             /\ WithinMetricsBound(performanceMetrics')
             /\ last' = Outcome("sendMessage", "ServiceExampleEventService", args, "none",
                                <<>>, <<>>)
             /\ Monitored(<<"error">>)
             /\ UNCHANGED <<pesVars, minVars, instVars, eventService, messageQueue, subscribers,
                            bridgeListeners, wrapperCount, enqueued, uiVars>>
        ELSE \E bridgeThrows \in BOOLEAN, timestamp \in Timestamps, random \in RandomSuffixes,
                latency \in Latencies :
             LET env == enhancedMessage(message, options, generateId("msg", timestamp, random))
                 call == BridgeCall("sendMessage", eventService, targetModuleId.v, env,
                                    options, bridgeThrows)
             IN
             /\ last' = Outcome("sendMessage", "ServiceExampleEventService", args, "none",
                                <<call>>, <<>>)
             /\ performanceMetrics' =
                    IF bridgeThrows THEN CatchError(performanceMetrics)
                    ELSE AfterSend(performanceMetrics, 1, latency)
             /\ WithinMetricsBound(performanceMetrics')
             /\ IF ReachesAddToQueue(options, bridgeThrows)
                THEN /\ Len(enqueued) < maxEnqueued
                     /\ enqueued' = Append(enqueued, targetModuleId.v)
                     /\ messageQueue' = addToQueue(messageQueue,
                            QueueEntry(env, targetModuleId.v, Len(enqueued) + 1))
                ELSE UNCHANGED <<messageQueue, enqueued>>
             /\ Monitored(SendLog(options, bridgeThrows))
             /\ UNCHANGED <<pesVars, minVars, instVars, eventService, subscribers, bridgeListeners, wrapperCount, uiVars>>

\* broadcastMessage: the message handed to sendMessage for one target
broadcastMessageFor(message, broadcastId, targetModuleIds, targetId) ==
    JSObjectWith(TypeOf(message),
                 [_broadcast |-> [id |-> broadcastId, targets |-> targetModuleIds,
                                  currentTarget |-> targetId]]
                 @@ OwnProps(message))

\* addToQueue for each entry in turn
RECURSIVE AddAllToQueue(_, _)
AddAllToQueue(queue, entries) ==
    IF entries = <<>> THEN queue
    ELSE AddAllToQueue(addToQueue(queue, Head(entries)), Tail(entries))

\* broadcastMessage: one broadcast id, then one sendMessage per target in list order;
\* sendMessage swallows a Bridge failure, so the loop reaches every target
ServiceExampleEventService_broadcastMessage(maxEnqueued) ==
    \E args \in SeesBroadcastInputs, timestamp \in Timestamps,
       random \in BroadcastRandomSuffixes :
        LET targetModuleIds == args[1]
            message == args[2]
            options == args[3]
            n == Len(targetModuleIds)
            broadcastId == generateId("broadcast", timestamp, random)
        IN
        IF eventService = NoBridge
        THEN /\ performanceMetrics' = [performanceMetrics EXCEPT !.errorCount = @ + n]
             /\ WithinMetricsBound(performanceMetrics')
             /\ last' = Outcome("broadcastMessage", "ServiceExampleEventService", args,
                                "none", <<>>, <<>>)
             /\ Monitored([i \in 1..n |-> "error"] \o <<"broadcast.sent">>)
             /\ UNCHANGED <<pesVars, minVars, instVars, eventService, messageQueue, subscribers,
                            bridgeListeners, wrapperCount, enqueued, uiVars>>
        ELSE \E throwing \in SUBSET (1..n), msgTimestamp \in Timestamps,
                msgRandom \in RandomSuffixes, latency \in Latencies :
             LET attempted == AttemptedTargets(targetModuleIds, throwing)
                 m == Len(attempted)
                 failed == Cardinality(throwing \cap (1..m))
                 env(i) == enhancedMessage(
                               broadcastMessageFor(message, broadcastId, targetModuleIds,
                                                   attempted[i]),
                               options, generateId("msg", msgTimestamp, msgRandom))
                 calls == [i \in 1..m |->
                             BridgeCall("sendMessage", eventService, attempted[i],
                                        env(i), options, i \in throwing)]
                 queued == SelectSeq([i \in 1..m |-> i],
                                     LAMBDA i : ReachesAddToQueue(options, i \in throwing))
                 entries == [k \in 1..Len(queued) |->
                               QueueEntry(env(queued[k]), targetModuleIds[queued[k]],
                                          Len(enqueued) + k)]
             IN
             /\ performanceMetrics' =
                    [AfterSend(performanceMetrics, m - failed, latency) EXCEPT
                        !.errorCount = @ + 2 * failed]
             /\ WithinMetricsBound(performanceMetrics')
             /\ Len(enqueued) + Len(queued) <= maxEnqueued
             /\ last' = Outcome("broadcastMessage", "ServiceExampleEventService", args,
                                "none", calls, <<>>)
             /\ Monitored(Flatten([i \in 1..m |-> SendLog(options, i \in throwing)])
                          \o <<"broadcast.sent">>)
             /\ enqueued' = enqueued \o [k \in 1..Len(queued) |-> targetModuleIds[queued[k]]]
             /\ messageQueue' = AddAllToQueue(messageQueue, entries)
             /\ UNCHANGED <<pesVars, minVars, instVars, eventService, subscribers, bridgeListeners,
                            wrapperCount, uiVars>>

\* what broadcastMessage returns to its caller: it is declared void and has no return
\* statement
broadcastMessage_returns == JSUndefined

\* the function subscribeToMessages creates around the caller's callback
wrappedCallback(id, callback, options) ==
    [ty |-> "function", v |-> "wrappedCallback", id |-> id,
     callback |-> callback, options |-> options]

\* one invocation of a caller's callback
Invocation(callback, message, via, target, seq) ==
    [callback |-> callback, message |-> message, via |-> via, target |-> target, seq |-> seq]

\* replayQueuedMessages: the wrapped callback is called once per queued message, in order
replayQueuedMessages(queue, wrapped) ==
    [i \in 1..Len(queue) |->
        Invocation(wrapped.callback, queue[i].message, "replay", queue[i].target, queue[i].seq)]

\* a wrappedCallback that counts the message once the caller's callback has returned
AfterDelivery_countsAfterCallback(metrics, n, k) ==
    [metrics EXCEPT !.messagesReceived = @ + (n - k), !.errorCount = @ + 2 * k]

\* the metrics after the wrapped callback ran n times and the caller's callback threw in k of them
AfterDelivery(metrics, n, k) ==
    [metrics EXCEPT !.messagesReceived = @ + n, !.errorCount = @ + 2 * k]

\* subscribeToMessages on the given inputs.  The Bridge call may throw; when it returns
\* it may already have invoked the wrappedCallback with a message of its own; the replay
\* of the queue follows the Bridge call.
SubscribeToMessagesOn(maxSubs, inputs, deliversInSubscribe) ==
    \E args \in inputs :
        LET callback == args[1]
            options == args[2]
        IN
        IF eventService = NoBridge
        THEN /\ performanceMetrics' = logError(performanceMetrics)
             /\ WithinMetricsBound(performanceMetrics')
             /\ last' = Outcome("subscribeToMessages", "ServiceExampleEventService", args,
                                "none", <<>>, <<>>)
             /\ Monitored(<<"error">>)
             /\ UNCHANGED <<pesVars, minVars, instVars, eventService, messageQueue, subscribers,
                            bridgeListeners, wrapperCount, enqueued, uiVars>>
        ELSE \E bridgeThrows \in BOOLEAN :
             LET wrapped == wrappedCallback(wrapperCount + 1, callback, options)
                 call == BridgeCall("subscribeToMessages", eventService, SeesModuleId,
                                    wrapped, options, bridgeThrows)
                 replay == ~bridgeThrows /\ Truthy(options.persist) /\ Len(messageQueue) > 0
                 replayed == IF replay THEN replayQueuedMessages(messageQueue, wrapped)
                             ELSE <<>>
             IN
             /\ wrapperCount < maxSubs
             /\ wrapperCount' = wrapperCount + 1
             /\ subscribers' = SetAdd(subscribers, wrapped)
             /\ IF bridgeThrows
                THEN /\ performanceMetrics' = CatchError(performanceMetrics)
                     /\ UNCHANGED bridgeListeners
                     /\ last' = Outcome("subscribeToMessages", "ServiceExampleEventService",
                                        args, "none", <<call>>, <<>>)
                     /\ Monitored(<<"error">>)
                ELSE \E delivers \in deliversInSubscribe, message \in DeliveredMessages :
                     LET live == IF delivers
                                 THEN <<Invocation(callback, message, "live", SeesModuleId, 0)>>
                                 ELSE <<>>
                         invoked == live \o replayed
                     IN
                     /\ bridgeListeners' = BridgeSubscribe(bridgeListeners, eventService,
                                                           SeesModuleId, wrapped)
                     /\ \E throwing \in SUBSET (1..Len(invoked)) :
                          /\ performanceMetrics' = AfterDelivery(performanceMetrics,
                                                       Len(invoked), Cardinality(throwing))
                          /\ Monitored(
                                Flatten([i \in 1..Len(live) |-> DeliveryLog(i \in throwing)])
                                \o <<"subscription.created">>
                                \o Flatten([i \in 1..Len(replayed) |->
                                               DeliveryLog(Len(live) + i \in throwing)])
                                \o (IF replay THEN <<"queue.replayed">> ELSE <<>>))
                     /\ last' = Outcome("subscribeToMessages", "ServiceExampleEventService",
                                        args, "none", <<call>>, invoked)
             /\ WithinMetricsBound(performanceMetrics')
             /\ UNCHANGED <<pesVars, minVars, instVars, eventService, messageQueue, enqueued, uiVars>>

ServiceExampleEventService_subscribeToMessages(maxSubs) ==
    SubscribeToMessagesOn(maxSubs, SeesSubscribeInputs, NoDeliveryInSubscribe)

ServiceExampleEventService_unsubscribeFromMessages(unsubscribeThrows) ==
    \E callback \in SeesCallbacks, options \in SeesOptionInputs :
        LET args == <<callback, options>> IN
        IF eventService = NoBridge
        THEN /\ performanceMetrics' = logError(performanceMetrics)
             /\ WithinMetricsBound(performanceMetrics')
             /\ last' = Outcome("unsubscribeFromMessages", "ServiceExampleEventService", args,
                                "none", <<>>, <<>>)
             /\ Monitored(<<"error">>)
             /\ UNCHANGED <<pesVars, minVars, instVars, eventService, messageQueue, subscribers,
                            bridgeListeners, wrapperCount, enqueued, uiVars>>
        ELSE \E bridgeThrows \in unsubscribeThrows :
             /\ last' = Outcome("unsubscribeFromMessages", "ServiceExampleEventService", args,
                                "none",
                                <<BridgeCall("unsubscribeFromMessages", eventService,
                                             SeesModuleId, callback, options, bridgeThrows)>>,
                                <<>>)
             /\ IF bridgeThrows
                THEN /\ performanceMetrics' = CatchError(performanceMetrics)
                     /\ WithinMetricsBound(performanceMetrics')
                     /\ UNCHANGED <<subscribers, bridgeListeners>>
                ELSE /\ bridgeListeners' = BridgeUnsubscribe(bridgeListeners, eventService,
                                                             SeesModuleId, callback)
                     /\ subscribers' = SetDelete(subscribers, callback)
                     /\ UNCHANGED performanceMetrics
             /\ Monitored(IF bridgeThrows THEN <<"error">> ELSE <<"subscription.removed">>)
             /\ UNCHANGED <<pesVars, minVars, instVars, eventService, messageQueue, wrapperCount, enqueued, uiVars>>

clearQueue ==
    /\ messageQueue' = <<>>
    /\ enqueued' = <<>>
    /\ last' = Outcome("clearQueue", "ServiceExampleEventService", <<>>, "none", <<>>, <<>>)
    /\ Monitored(<<"queue.cleared">>)
    /\ UNCHANGED <<pesVars, minVars, instVars, eventService, subscribers, performanceMetrics,
                   bridgeListeners, wrapperCount, uiVars>>

resetMetrics ==
    /\ performanceMetrics' = InitialPerformanceMetrics
    /\ last' = Outcome("resetMetrics", "ServiceExampleEventService", <<>>, "none", <<>>, <<>>)
    /\ Monitored(<<"metrics.reset">>)
    /\ UNCHANGED <<pesVars, minVars, instVars, eventService, messageQueue, subscribers,
                   bridgeListeners, wrapperCount, enqueued, uiVars>>

\* cleanup: the forEach stops at the first Bridge call that throws (throwAt; 0 when none
\* does), and the catch skips the clearing of the tracking data
cleanup(unsubscribeThrows) ==
    \E throwAt \in 0..(IF eventService = NoBridge \/ TRUE \notin unsubscribeThrows THEN 0
                       ELSE Len(subscribers)) :
        LET n == IF eventService = NoBridge THEN 0
                 ELSE IF throwAt = 0 THEN Len(subscribers) ELSE throwAt
            calls == [i \in 1..n |->
                        BridgeCall("unsubscribeFromMessages", eventService, SeesModuleId,
                                   subscribers[i], JSUndefined, i = throwAt)]
            done == IF throwAt = 0 THEN SubSeq(subscribers, 1, n)
                    ELSE SubSeq(subscribers, 1, throwAt - 1)
        IN
        /\ last' = Outcome("cleanup", "ServiceExampleEventService", <<>>, "none", calls, <<>>)
        /\ bridgeListeners' = IF eventService = NoBridge THEN bridgeListeners
                              ELSE UnsubscribeEach(bridgeListeners, eventService,
                                                   SeesModuleId, done, {})
        /\ IF throwAt = 0
           THEN /\ subscribers' = <<>>
                /\ messageQueue' = <<>>
                /\ enqueued' = <<>>
                /\ MonitoredFrom(<<>>, <<"service.cleanup">>)
                /\ UNCHANGED performanceMetrics
           ELSE /\ performanceMetrics' = logError(performanceMetrics)
                /\ WithinMetricsBound(performanceMetrics')
                /\ Monitored(<<"error">>)
                /\ UNCHANGED <<subscribers, messageQueue, enqueued>>
        /\ UNCHANGED <<pesVars, minVars, instVars, eventService, wrapperCount, uiVars>>

\* The host delivers a message on a channel of a bridge: every listener of the channel
\* is invoked once; a wrappedCallback counts the message and calls the caller's callback,
\* which may throw.
RECURSIVE SetToSeq(_)
SetToSeq(S) ==
    IF S = {} THEN <<>>
    ELSE LET x == CHOOSE y \in S : TRUE IN <<x>> \o SetToSeq(S \ {x})

Bridge_deliver ==
    \E bridge \in Bridges, moduleId \in Channels, message \in DeliveredMessages :
        LET fns == SetToSeq({l.fn : l \in {l \in bridgeListeners[bridge] : l.moduleId = moduleId}})
            wrappers == {i \in 1..Len(fns) : fns[i].v = "wrappedCallback"}
        IN
        \E throwing \in SUBSET wrappers :
            /\ fns # <<>>
            /\ performanceMetrics' = AfterDelivery(performanceMetrics, Cardinality(wrappers),
                                                   Cardinality(throwing))
            /\ WithinMetricsBound(performanceMetrics')
            /\ Monitored(Flatten([i \in 1..Len(fns) |->
                                    IF i \in wrappers THEN DeliveryLog(i \in throwing)
                                    ELSE <<>>]))
            /\ last' = Outcome("deliver", "Bridge", <<bridge, moduleId, message>>, "none", <<>>,
                         [i \in 1..Len(fns) |->
                            Invocation(IF i \in wrappers THEN fns[i].callback ELSE fns[i],
                                       message, "live", moduleId, 0)])
            /\ UNCHANGED <<pesVars, minVars, instVars, eventService, messageQueue, subscribers,
                           bridgeListeners, wrapperCount, enqueued, uiVars>>

\* JavaScript's number division, on non-negative integers: an exact quotient, kept as a
\* fraction; x/0 is Infinity and 0/0 is NaN, both with denominator 0
JSQuotient(a, b) ==
    IF b = 0 THEN [num |-> IF a = 0 THEN 0 ELSE 1, den |-> 0]
    ELSE [num |-> a, den |-> b]
JSZero == [num |-> 0, den |-> 1]
IsFiniteNumber(x) == x.den # 0

\* getPerformanceMetrics computing its quotients without the guards
getPerformanceMetrics_unguarded ==
    [messagesSent |-> performanceMetrics.messagesSent,
     messagesReceived |-> performanceMetrics.messagesReceived,
     averageLatency |-> JSQuotient(performanceMetrics.totalLatency,
                                   performanceMetrics.messagesSent),
     errorCount |-> performanceMetrics.errorCount,
     errorRate |-> JSQuotient(performanceMetrics.errorCount,
                              performanceMetrics.messagesSent
                              + performanceMetrics.messagesReceived)]

\* getPerformanceMetrics() (uptime, a reading of the clock, left out)
getPerformanceMetrics ==
    LET averageLatency == IF performanceMetrics.messagesSent > 0
                          THEN JSQuotient(performanceMetrics.totalLatency,
                                          performanceMetrics.messagesSent)
                          ELSE JSZero
        totalMessages == performanceMetrics.messagesSent + performanceMetrics.messagesReceived
        errorRate == IF totalMessages > 0
                     THEN JSQuotient(performanceMetrics.errorCount, totalMessages)
                     ELSE JSZero
    IN
    [messagesSent |-> performanceMetrics.messagesSent,
     messagesReceived |-> performanceMetrics.messagesReceived,
     averageLatency |-> averageLatency,
     errorCount |-> performanceMetrics.errorCount,
     errorRate |-> errorRate]

\* getStatus()
getStatus ==
    [isAvailable |-> eventService # NoBridge,
     pluginId |-> SeesPluginId,
     moduleId |-> SeesModuleId,
     activeSubscriptions |-> Len(subscribers),
     queueSize |-> Len(messageQueue),
     metrics |-> getPerformanceMetrics]

NextSEES(maxSubs, maxEnqueued, unsubscribeThrows) ==
    \/ initialize
    \/ ServiceExampleEventService_sendMessage(maxEnqueued)
    \/ ServiceExampleEventService_subscribeToMessages(maxSubs)
    \/ ServiceExampleEventService_unsubscribeFromMessages(unsubscribeThrows)
    \/ clearQueue
    \/ resetMetrics
    \/ cleanup(unsubscribeThrows)
    \/ Bridge_deliver

SpecSEES == Init /\ [][NextSEES(QueueRunSubs, QueueRunEnqueued, MayThrow)]_vars

SpecSEESSubs == Init /\ [][NextSEES(SubsRunSubs, SubsRunEnqueued, MayThrow)]_vars

\* the same instance with callers that also pass malformed options to subscribeToMessages
\* and a Bridge that may deliver while subscribeToMessages is running
NextSEESSubscribe ==
    \/ initialize
    \/ ServiceExampleEventService_sendMessage(SubsRunEnqueued)
    \/ SubscribeToMessagesOn(QueueRunSubs, AnySubscribeInputs, MayDeliverInSubscribe)
    \/ ServiceExampleEventService_unsubscribeFromMessages(MayThrow)
    \/ clearQueue
    \/ resetMetrics
    \/ cleanup(MayThrow)
    \/ Bridge_deliver

SpecSEESSubscribe == Init /\ [][NextSEESSubscribe]_vars

----------------------------------------------------------------------------
\* Replay to a callback that, while it is being replayed to, may throw or call back into
\* the instance (sendMessage with persist true, unsubscribeFromMessages).

ReplayRunMetrics == 4    \* cap on the counters in the runs that look at the replay
\* the wrappedCallbacks the instance creates in these runs: one subscription, whose
\* replay is looked at
ReplayRunWrapperIds == {1}

\* what the caller's callback does when it is invoked with a replayed envelope
ReplayBehaviours == {"return", "throw", "sendPersist", "unsubscribe"}

\* the sendMessage call a callback makes from inside the replay
ReentrantSend == <<JSString("m1"), JSObject(JSString("ping")), EventOptions(JSFalse, JSTrue)>>

\* an invocation during replay, with what the callback did in it
ReplayInvocation(callback, entry, did) ==
    [did |-> did] @@ Invocation(callback, entry.message, "replay", entry.target, entry.seq)

\* a forEach that reads the length of the array again before every element
VisitedLength_live(startLength, array) == Len(array)

\* Array.prototype.forEach: the length is read once, before the first element is visited
VisitedLength(startLength, array) == startLength

\* a replay that is abandoned when the callback throws
ResumeAt_abortsOnThrow(k, startLength, did) ==
    IF did = "throw" THEN startLength + 1 ELSE k + 1

\* the element forEach visits after element k: the wrappedCallback catches what the
\* caller's callback throws, so the loop goes on to the next element
ResumeAt(k, startLength, did) == k + 1

\* sendMessage(.., {persist: true}) called by the callback, the Bridge call returning:
\* push appends to the array object the field refers to (the one being iterated as long
\* as the field has not been reassigned); on overflow the field is assigned a new array
ReentrantSendMessage(st, ctx) ==
    LET entry == QueueEntry(ctx.env, ReentrantSend[1].v, Len(st.enq) + 1)
        overflow == Len(st.queue) + 1 > maxQueueSize
    IN
    [st EXCEPT !.metrics = AfterSend(@, 1, ctx.latency),
               !.logs = @ \o SendLog(ReentrantSend[3], FALSE),
               !.calls = Append(@, BridgeCall("sendMessage", ctx.bridge, ReentrantSend[1].v,
                                              ctx.env, ReentrantSend[3], FALSE)),
               !.array = IF st.aliased THEN Append(@, entry) ELSE @,
               !.queue = addToQueue(@, entry),
               !.aliased = @ /\ ~overflow,
               !.enq = Append(@, ReentrantSend[1].v)]

\* unsubscribeFromMessages(callback, options) called by the callback, the Bridge call
\* returning
ReentrantUnsubscribe(st, ctx) ==
    [st EXCEPT !.calls = Append(@, BridgeCall("unsubscribeFromMessages", ctx.bridge,
                                              SeesModuleId, ctx.wrapped.callback,
                                              ctx.wrapped.options, FALSE)),
               !.listeners = BridgeUnsubscribe(@, ctx.bridge, SeesModuleId,
                                               ctx.wrapped.callback),
               !.logs = @ \o <<"subscription.removed">>,
               !.subs = SetDelete(@, ctx.wrapped.callback)]

\* replayQueuedMessages with a callback that may re-enter: this.messageQueue.forEach
\* from element k on; st.array is the array object being iterated, st.queue the value of
\* the field this.messageQueue
RECURSIVE forEachReplay(_, _, _)
forEachReplay(st, k, ctx) ==
    IF k > VisitedLength(ctx.startLength, st.array) THEN st
    ELSE LET did == IF k \in DOMAIN ctx.behaviours THEN ctx.behaviours[k] ELSE "return"
             received == [st EXCEPT
                             !.metrics.messagesReceived = @ + 1,
                             !.logs = @ \o <<"message.received">>,
                             !.invoked = Append(@, ReplayInvocation(ctx.wrapped.callback,
                                                                    st.array[k], did))]
             called == CASE did = "return" -> received
                         [] did = "throw" -> [received EXCEPT !.metrics = CatchError(@)]
                         [] did = "sendPersist" -> ReentrantSendMessage(received, ctx)
                         [] did = "unsubscribe" -> ReentrantUnsubscribe(received, ctx)
             after == [called EXCEPT !.logs = @ \o <<IF did = "throw" THEN "error"
                                                     ELSE "message.processed">>]
         IN forEachReplay(after, ResumeAt(k, ctx.startLength, did), ctx)

\* subscribeToMessages with such a callback
SubscribeToMessagesReentrant(wrapperIds, maxEnqueued) ==
    \E args \in SeesSubscribeInputs :
        LET callback == args[1]
            options == args[2]
        IN
        IF eventService = NoBridge
        THEN /\ performanceMetrics' = logError(performanceMetrics)
             /\ performanceMetrics'.messagesSent + performanceMetrics'.messagesReceived
                    + performanceMetrics'.errorCount <= ReplayRunMetrics
             /\ last' = Outcome("subscribeToMessages", "ServiceExampleEventService", args,
                                "none", <<>>, <<>>)
             /\ Monitored(<<"error">>)
             /\ UNCHANGED <<pesVars, minVars, instVars, eventService, messageQueue, subscribers,
                            bridgeListeners, wrapperCount, enqueued, uiVars>>
        ELSE \E bridgeThrows \in BOOLEAN, timestamp \in Timestamps, random \in RandomSuffixes,
                latency \in Latencies :
             LET wrapped == wrappedCallback(wrapperCount + 1, callback, options)
                 call == BridgeCall("subscribeToMessages", eventService, SeesModuleId,
                                    wrapped, options, bridgeThrows)
                 replay == ~bridgeThrows /\ Truthy(options.persist) /\ Len(messageQueue) > 0
                 start == [array |-> messageQueue, queue |-> messageQueue, aliased |-> TRUE,
                           enq |-> enqueued, invoked |-> <<>>, calls |-> <<call>>,
                           logs |-> IF bridgeThrows THEN <<"error">>
                                    ELSE <<"subscription.created">>,
                           metrics |-> IF bridgeThrows THEN CatchError(performanceMetrics)
                                       ELSE performanceMetrics,
                           listeners |-> IF bridgeThrows THEN bridgeListeners
                                         ELSE BridgeSubscribe(bridgeListeners, eventService,
                                                              SeesModuleId, wrapped),
                           subs |-> SetAdd(subscribers, wrapped)]
             IN
             /\ wrapperCount + 1 \in wrapperIds
             /\ wrapperCount' = wrapperCount + 1
             /\ \E behaviours \in [1..(IF replay THEN Len(messageQueue) ELSE 0)
                                      -> ReplayBehaviours] :
                  LET ctx == [wrapped |-> wrapped, behaviours |-> behaviours,
                              startLength |-> Len(messageQueue), bridge |-> eventService,
                              latency |-> latency,
                              env |-> enhancedMessage(ReentrantSend[2], ReentrantSend[3],
                                          generateId("msg", timestamp, random))]
                      end == IF replay THEN forEachReplay(start, 1, ctx) ELSE start
                  IN
                  /\ end.metrics.messagesSent + end.metrics.messagesReceived
                         + end.metrics.errorCount <= ReplayRunMetrics
                  /\ Len(end.enq) <= maxEnqueued
                  /\ performanceMetrics' = end.metrics
                  /\ messageQueue' = end.queue
                  /\ enqueued' = end.enq
                  /\ subscribers' = end.subs
                  /\ bridgeListeners' = end.listeners
                  /\ last' = Outcome("subscribeToMessages", "ServiceExampleEventService",
                                     args, "none", end.calls, end.invoked)
                  /\ Monitored(end.logs \o (IF replay THEN <<"queue.replayed">> ELSE <<>>))
             /\ UNCHANGED <<pesVars, minVars, instVars, eventService, uiVars>>

NextReplay ==
    \/ initialize
    \/ ServiceExampleEventService_sendMessage(QueueRunEnqueued)
    \/ SubscribeToMessagesReentrant(ReplayRunWrapperIds, QueueRunEnqueued)
    \/ clearQueue
    \/ resetMetrics
    \/ Bridge_deliver

SpecReplay == Init /\ [][NextReplay]_vars

----------------------------------------------------------------------------
\* The monitoring log.

\* getEventLog(): a copy of the log
getEventLog == eventLog

\* clearEventLog()
clearEventLog ==
    /\ eventLog' = <<>>
    /\ last' = Outcome("clearEventLog", "ServiceExampleEventService", <<>>, "none", <<>>, <<>>)
    /\ UNCHANGED <<pesVars, minVars, instVars, eventService, messageQueue, subscribers,
                   performanceMetrics, bridgeListeners, wrapperCount, enqueued, logged,
                   monitoring, uiVars>>

NextEventLog ==
    \/ initialize
    \/ ServiceExampleEventService_sendMessage(SubsRunEnqueued)
    \/ ServiceExampleEventService_subscribeToMessages(QueueRunSubs)
    \/ ServiceExampleEventService_unsubscribeFromMessages(MayThrow)
    \/ clearQueue
    \/ resetMetrics
    \/ cleanup(MayThrow)
    \/ Bridge_deliver
    \/ clearEventLog

SpecEventLog == InitMonitoring /\ [][NextEventLog]_vars

----------------------------------------------------------------------------
\* The MessageQueue component.  Its handlers update this.state through setState; the
\* component's own EventServiceWrapper (a ServiceExampleEventService, whose sendMessage
\* never throws) is not followed beyond the call made on it.

MessageQueueModuleId == "MessageQueue"
MaxArrivals == 3        \* cap on stats.totalQueued
MaxAttempts == 1        \* cap on the attempts of a queued message
keptMessages == 1       \* processedMessages / failedMessages keep the newest 50 in the source

\* messages the Bridge hands to handleIncomingMessage: with or without an id and a
\* priority of their own, from another module or from the component itself
IncomingMessages ==
    {[id |-> JSString("a"), priority |-> JSUndefined, sourceModuleId |-> "EventSender"],
     [id |-> JSUndefined, priority |-> JSString("high"), sourceModuleId |-> "EventSender"],
     [id |-> JSUndefined, priority |-> JSUndefined, sourceModuleId |-> MessageQueueModuleId]}

priorityOrder(priority) ==
    CASE priority = JSString("high")   -> 3
      [] priority = JSString("normal") -> 2
      [] priority = JSString("low")    -> 1

\* the QueuedMessage handleIncomingMessage builds; generateId('queued') reads the clock,
\* which the model advances with every arrival
QueuedMessage(message, arrival) ==
    [id |-> IF Truthy(message.id) THEN message.id ELSE JSString("queued_" \o ToString(arrival)),
     attempts |-> 0,
     status |-> "queued",
     priority |-> IF Truthy(message.priority) THEN message.priority ELSE JSString("normal")]

WrapperCall(method, target, message, options) ==
    BridgeCall(method, "EventServiceWrapper", target, message, options, FALSE)

MessageQueue_handleIncomingMessage ==
    \E message \in IncomingMessages :
        LET prevState == messageQueueState
            queuedMessage == QueuedMessage(message, prevState.stats.totalQueued + 1)
            updatedQueue ==
                IF Len(prevState.queuedMessages) >= prevState.maxQueueSize
                THEN Tail(prevState.queuedMessages) \o <<queuedMessage>>
                ELSE prevState.queuedMessages \o <<queuedMessage>>
        IN
        /\ last' = Outcome("handleIncomingMessage", "MessageQueue", <<message>>, "none",
                           <<>>, <<>>)
        /\ IF message.sourceModuleId = MessageQueueModuleId
           THEN UNCHANGED messageQueueState
           ELSE /\ prevState.stats.totalQueued < MaxArrivals
                /\ messageQueueState' =
                      [prevState EXCEPT
                          !.queuedMessages = updatedQueue,
                          !.stats.totalQueued = @ + 1,
                          !.stats.queueSize = Len(updatedQueue)]
        /\ UNCHANGED <<wrapperVars, chatState, broadcastState>>

\* toggleProcessing: startProcessing sets the interval, stopProcessing clears it
MessageQueue_toggleProcessing ==
    /\ messageQueueState' = [messageQueueState EXCEPT !.isProcessing = ~@]
    /\ last' = Outcome("toggleProcessing", "MessageQueue", <<>>, "none", <<>>, <<>>)
    /\ UNCHANGED <<wrapperVars, chatState, broadcastState>>

MessageQueue_togglePause ==
    /\ messageQueueState' = [messageQueueState EXCEPT !.isPaused = ~@]
    /\ last' = Outcome("togglePause", "MessageQueue", <<>>, "none", <<>>, <<>>)
    /\ UNCHANGED <<wrapperVars, chatState, broadcastState>>

\* the first of the queued messages with the highest priority ([...queue].sort is
\* stable, and sortedQueue[0] is taken)
NextToProcess(queue) ==
    LET i == CHOOSE i \in 1..Len(queue) :
                /\ \A j \in 1..Len(queue) :
                      priorityOrder(queue[j].priority) <= priorityOrder(queue[i].priority)
                /\ \A j \in 1..(i - 1) :
                      priorityOrder(queue[j].priority) < priorityOrder(queue[i].priority)
    IN queue[i]

\* [x, ...list].slice(0, keptMessages)
KeepNewest(x, list) ==
    LET all == <<x>> \o list IN
    IF Len(all) > keptMessages THEN SubSeq(all, 1, keptMessages) ELSE all

\* a tick of the processing interval: processNextMessage, whose simulated processing
\* succeeds or fails
MessageQueue_processNextMessage ==
    \E success \in BOOLEAN :
        LET prevState == messageQueueState
            messageToProcess == NextToProcess(prevState.queuedMessages)
            remainingQueue == SelectSeq(prevState.queuedMessages,
                                        LAMBDA m : m.id # messageToProcess.id)
            processedMessage ==
                [messageToProcess EXCEPT
                    !.status = IF success THEN "processed" ELSE "failed",
                    !.attempts = @ + 1]
        IN
        /\ prevState.isProcessing /\ ~prevState.isPaused
        /\ Len(prevState.queuedMessages) > 0
        /\ messageToProcess.attempts < MaxAttempts
        /\ messageQueueState' =
              [prevState EXCEPT
                  !.queuedMessages = remainingQueue,
                  !.processedMessages = IF success THEN KeepNewest(processedMessage, @)
                                        ELSE @,
                  !.failedMessages = IF success THEN @
                                     ELSE KeepNewest(processedMessage, @),
                  !.stats.totalProcessed = IF success THEN @ + 1 ELSE @,
                  !.stats.totalFailed = IF success THEN @ ELSE @ + 1,
                  !.stats.queueSize = Len(remainingQueue)]
        /\ last' = Outcome("processNextMessage", "MessageQueue", <<success>>, "none",
                           IF success
                           THEN <<WrapperCall("sendMessage", "EventService",
                                              [type |-> JSString("QUEUE_PROCESSED"),
                                               originalMessage |-> messageToProcess.id],
                                              EventOptions(JSTrue, JSFalse))>>
                           ELSE <<>>,
                           <<>>)
        /\ UNCHANGED <<wrapperVars, chatState, broadcastState>>

MessageQueue_retryFailedMessages ==
    LET prevState == messageQueueState
        retriedMessages == [i \in 1..Len(prevState.failedMessages) |->
                              [prevState.failedMessages[i] EXCEPT !.status = "queued"]]
    IN
    /\ messageQueueState' =
          [prevState EXCEPT
              !.queuedMessages = @ \o retriedMessages,
              !.failedMessages = <<>>,
              !.stats.queueSize = Len(prevState.queuedMessages) + Len(retriedMessages),
              !.stats.totalFailed = 0]
    /\ last' = Outcome("retryFailedMessages", "MessageQueue", <<>>, "none", <<>>, <<>>)
    /\ UNCHANGED <<wrapperVars, chatState, broadcastState>>

\* clearAllQueues, which the user confirms or not
MessageQueue_clearAllQueues ==
    \E confirmed \in BOOLEAN :
        /\ messageQueueState' =
              IF confirmed
              THEN [messageQueueState EXCEPT
                      !.queuedMessages = <<>>,
                      !.processedMessages = <<>>,
                      !.failedMessages = <<>>,
                      !.stats = MessageQueue_constructor.stats]
              ELSE messageQueueState
        /\ last' = Outcome("clearAllQueues", "MessageQueue", <<confirmed>>, "none", <<>>, <<>>)
        /\ UNCHANGED <<wrapperVars, chatState, broadcastState>>

NextMessageQueue ==
    \/ MessageQueue_handleIncomingMessage
    \/ MessageQueue_toggleProcessing
    \/ MessageQueue_togglePause
    \/ MessageQueue_processNextMessage
    \/ MessageQueue_retryFailedMessages
    \/ MessageQueue_clearAllQueues

SpecMessageQueue == Init /\ [][NextMessageQueue]_vars

----------------------------------------------------------------------------
\* LeftChat and RightChat.  Each chat owns a ServiceExampleEventService, of which the
\* model keeps what the chats depend on: whether it was initialized and whether its
\* subscription reached the Bridge.  Its sendMessage swallows every failure, so a chat
\* never learns that a message was not accepted.  The Bridge delivers what it
\* accepted, later, once and in the order of acceptance, to a target that subscribed;
\* during one handler it is either up or down for every message the handler sends.

LeftChatModuleId == "left-chat"
RightChatModuleId == "right-chat"
MaxChatMessages == 2        \* cap on messageCounter of a chat
InputTexts == {"", "hi"}

Chats == {"left", "right"}
OtherChat(chat) == IF chat = "left" THEN "right" ELSE "left"
ChatModuleId(chat) == IF chat = "left" THEN LeftChatModuleId ELSE RightChatModuleId

validateMessageContent(content) == content # ""

createChatMessage(sender, messageNumber) ==
    [type |-> "chat.message", sender |-> sender, messageNumber |-> messageNumber]

\* the notification sendStateChangeMessage builds; generateId('state') reads the clock,
\* and the model names a notification by its reason and the message count of its
\* sender, which differ whenever two notifications of one chat do
StateMessage(chat, activeModule, previousModule, reason, observedEnabled, count) ==
    [type |-> "chat.state.change",
     id |-> reason \o "_" \o ToString(count),
     sender |-> chat,
     activeModule |-> activeModule, previousModule |-> previousModule,
     reason |-> reason,
     isEnabled |-> IF activeModule = chat THEN observedEnabled ELSE ~observedEnabled]

\* ServiceExampleEventService.sendMessage as a chat sees it: nothing is returned and
\* nothing is thrown; the message is with the Bridge unless the wrapper has no bridge
\* or the Bridge threw
Accepted(service, messages, bridgeThrows) ==
    IF service = NoBridge \/ bridgeThrows THEN <<>> ELSE messages

\* componentDidMount of a chat: initializeServices, and for RightChat
\* startConnectionMonitoring
Chat_componentDidMount(chat) ==
    \E available \in BOOLEAN, bridgeThrows \in BOOLEAN :
        LET c == chatState[chat] IN
        /\ c.isInitializing
        /\ chatState' =
              [chatState EXCEPT ![chat] =
                  IF available
                  THEN [c EXCEPT !.eventService = "bridge1",
                                 !.subscribed = ~bridgeThrows,
                                 !.isInitializing = FALSE,
                                 !.connectionStatus =
                                     IF chat = "right" THEN "connecting" ELSE @]
                  ELSE [c EXCEPT !.isInitializing = FALSE,
                                 !.error = "Failed to initialize"]]
        /\ last' = Outcome("componentDidMount", "Chat", <<chat, available>>, "none",
                           IF available
                           THEN <<WrapperCall("subscribeToMessages", ChatModuleId(chat),
                                              JSUndefined,
                                              IF chat = "left"
                                              THEN EventOptions(JSFalse, JSUndefined)
                                              ELSE EventOptions(JSTrue, JSTrue))>>
                           ELSE <<>>,
                           <<>>)
        /\ UNCHANGED <<wrapperVars, messageQueueState, broadcastState>>

LeftChat_componentDidMount == Chat_componentDidMount("left")
RightChat_componentDidMount == Chat_componentDidMount("right")

\* the timer of startConnectionMonitoring and the periodic checkConnectionHealth
RightChat_checkConnectionHealth ==
    LET c == chatState.right
        newStatus == IF c.eventService # NoBridge THEN "connected" ELSE "error"
    IN
    /\ c.connectionStatus \in {"connecting", "connected", "error"}
    /\ chatState' = [chatState EXCEPT !.right.connectionStatus = newStatus]
    /\ last' = Outcome("checkConnectionHealth", "Chat", <<"right">>, "none", <<>>, <<>>)
    /\ UNCHANGED <<wrapperVars, messageQueueState, broadcastState>>

\* the button of renderError
Chat_dismissError(chat) ==
    /\ chatState[chat].error # ""
    /\ chatState' = [chatState EXCEPT ![chat].error = ""]
    /\ last' = Outcome("dismissError", "Chat", <<chat>>, "none", <<>>, <<>>)
    /\ UNCHANGED <<wrapperVars, messageQueueState, broadcastState>>

\* handleSendMessage of a chat, from the input the chat renders once it is initialized
\* and shows no error.  setState is batched inside the event handler, so the
\* notification sent after it still reads the old isEnabled.
Chat_handleSendMessage(chat) ==
    \E inputText \in InputTexts :
        LET c == chatState[chat]
            other == ChatModuleId(OtherChat(chat))
        IN
        /\ ~c.isInitializing /\ c.error = ""
        /\ IF ~c.isEnabled
           THEN /\ UNCHANGED chatState
                /\ last' = Outcome("handleSendMessage", "Chat", <<chat, inputText>>,
                                   "disabled", <<>>, <<>>)
           ELSE IF chat = "right" /\ c.connectionStatus # "connected"
           THEN /\ chatState' = [chatState EXCEPT
                                    ![chat].error = "Cannot send message: Not connected"]
                /\ last' = Outcome("handleSendMessage", "Chat", <<chat, inputText>>,
                                   "not connected", <<>>, <<>>)
           ELSE IF ~validateMessageContent(inputText)
           THEN /\ chatState' = [chatState EXCEPT ![chat].error = "Invalid message"]
                /\ last' = Outcome("handleSendMessage", "Chat", <<chat, inputText>>,
                                   "invalid", <<>>, <<>>)
           ELSE \E bridgeThrows \in BOOLEAN :
                LET chatMessage == createChatMessage(chat, c.messageCounter + 1)
                    stateMessage == StateMessage(chat, chat, OtherChat(chat), "message_sent",
                                                 c.isEnabled, c.messageCounter + 1)
                    options == IF chat = "left" THEN EventOptions(JSFalse, JSFalse)
                               ELSE EventOptions(JSTrue, JSTrue)
                IN
                /\ c.messageCounter < MaxChatMessages
                /\ chatState' =
                      [chatState EXCEPT
                          ![chat].messageCounter = @ + 1,
                          ![chat].isEnabled = FALSE,
                          ![chat].error = "",
                          !.inFlight[other] =
                              @ \o Accepted(c.eventService, <<chatMessage, stateMessage>>,
                                            bridgeThrows)]
                /\ last' = Outcome("handleSendMessage", "Chat", <<chat, inputText>>, "none",
                                   <<[WrapperCall("sendMessage", other, chatMessage, options)
                                         EXCEPT !.threw = bridgeThrows],
                                     WrapperCall("sendMessage", "chat-history", chatMessage,
                                                 options),
                                     [WrapperCall("sendMessage", other, stateMessage, options)
                                         EXCEPT !.threw = bridgeThrows]>>,
                                   <<>>)
        /\ UNCHANGED <<wrapperVars, messageQueueState, broadcastState>>

LeftChat_handleSendMessage == Chat_handleSendMessage("left")
RightChat_handleSendMessage == Chat_handleSendMessage("right")

\* the Bridge delivers an accepted message to the chat it is for, which runs
\* handleMessageReceived.  The callback runs outside a React event handler, where
\* setState is applied at once or batched, depending on the React the host provides:
\* the notification reads the new isEnabled or the old one.
Chat_handleMessageReceived(chat) ==
    /\ chatState.inFlight[ChatModuleId(chat)] # <<>>
    /\ chatState[chat].subscribed
    /\ LET c == chatState[chat]
           message == Head(chatState.inFlight[ChatModuleId(chat)])
           rest == [chatState.inFlight EXCEPT ![ChatModuleId(chat)] = Tail(@)]
       IN
        /\ IF message.type = "chat.message" /\ message.sender = OtherChat(chat)
           THEN \E batched \in BOOLEAN, bridgeThrows \in BOOLEAN :
                LET stateMessage ==
                        StateMessage(chat, OtherChat(chat), chat, "message_received",
                                     IF batched THEN c.isEnabled ELSE TRUE,
                                     c.messageCounter)
                IN
                /\ chatState' =
                      [chatState EXCEPT
                          ![chat].isEnabled = TRUE,
                          !.inFlight =
                              [rest EXCEPT ![ChatModuleId(OtherChat(chat))] =
                                  @ \o Accepted(c.eventService, <<stateMessage>>,
                                                bridgeThrows)]]
                /\ last' = Outcome("handleMessageReceived", "Chat", <<chat, message>>,
                                   "none",
                                   <<[WrapperCall("sendMessage",
                                                  ChatModuleId(OtherChat(chat)),
                                                  stateMessage, EventOptions(JSFalse, JSFalse))
                                         EXCEPT !.threw = bridgeThrows]>>,
                                   <<>>)
           ELSE /\ chatState' = [chatState EXCEPT !.inFlight = rest]
                /\ last' = Outcome("handleMessageReceived", "Chat", <<chat, message>>,
                                   "ignored", <<>>, <<>>)
    /\ UNCHANGED <<wrapperVars, messageQueueState, broadcastState>>

LeftChat_handleMessageReceived == Chat_handleMessageReceived("left")
RightChat_handleMessageReceived == Chat_handleMessageReceived("right")

NextChat ==
    \/ LeftChat_componentDidMount
    \/ RightChat_componentDidMount
    \/ RightChat_checkConnectionHealth
    \/ Chat_dismissError("left")
    \/ Chat_dismissError("right")
    \/ LeftChat_handleSendMessage
    \/ RightChat_handleSendMessage
    \/ LeftChat_handleMessageReceived
    \/ RightChat_handleMessageReceived

SpecChat == Init /\ [][NextChat]_vars

----------------------------------------------------------------------------
\* The BroadcastCenter component.  Besides this.state the model keeps the number of
\* broadcast ids generated so far, the number of confirmations the Bridge delivered so
\* far, and the confirmation timers that are running, each
\* with the broadcast it was set for (the callback itself closes over broadcastId
\* only).  The component's wrapper never throws and is not followed further.

BroadcastTargets == {"LeftChat", "RightChat"}   \* two of the five availableTargets
BroadcastNumbers == {1, 2}  \* the broadcasts sent are the first and the second
MaxConfirmations == 1       \* cap on the confirmations the Bridge delivers
keptConfirmations == 3      \* handleConfirmation keeps the last 50 in the source
BroadcastTexts == {"", "hi"}

BroadcastOther == <<wrapperVars, messageQueueState, chatState>>

Includes(seq, x) == \E i \in 1..Len(seq) : seq[i] = x

BroadcastCenter_componentDidMount ==
    /\ ~broadcastState.mounted
    /\ broadcastState' = [broadcastState EXCEPT !.mounted = TRUE]
    /\ last' = Outcome("componentDidMount", "BroadcastCenter", <<>>, "none",
                       <<WrapperCall("subscribeToMessages", "BroadcastCenter", JSUndefined,
                                     EventOptions(JSTrue, JSFalse)),
                         WrapperCall("sendMessage", "EventService",
                                     [type |-> JSString("TARGET_DISCOVERY")],
                                     EventOptions(JSTrue, JSFalse))>>,
                       <<>>)
    /\ UNCHANGED BroadcastOther

BroadcastCenter_toggleTarget ==
    \E targetId \in BroadcastTargets :
        LET prevState == broadcastState
            isSelected == Includes(prevState.selectedTargets, targetId)
        IN
        /\ prevState.mounted
        /\ broadcastState' =
              [prevState EXCEPT !.selectedTargets =
                  IF isSelected THEN SelectSeq(@, LAMBDA id : id # targetId)
                  ELSE Append(@, targetId)]
        /\ last' = Outcome("toggleTarget", "BroadcastCenter", <<targetId>>, "none",
                           <<>>, <<>>)
        /\ UNCHANGED BroadcastOther

\* the onChange handler of the message box
BroadcastCenter_setBroadcastMessage ==
    \E text \in BroadcastTexts :
        /\ broadcastState.mounted
        /\ text # broadcastState.broadcastMessage
        /\ broadcastState' = [broadcastState EXCEPT !.broadcastMessage = text]
        /\ last' = Outcome("setBroadcastMessage", "BroadcastCenter", <<text>>, "none",
                           <<>>, <<>>)
        /\ UNCHANGED BroadcastOther

\* generateId('broadcast') reads the clock and a random number; the model numbers
\* the broadcasts.  sendBroadcast runs from the Send button, which is disabled while
\* no target is selected or the message is blank, and from sendTestBroadcast, which
\* sets both first.
generateBroadcastId(n) == "broadcast_" \o ToString(n)

BroadcastCenter_sendBroadcast ==
    LET prevState == broadcastState
        selectedTargets == prevState.selectedTargets
        broadcastId == generateBroadcastId(prevState.generated + 1)
        broadcast ==
            [id |-> broadcastId,
             type |-> "broadcast.announcement",
             content |-> prevState.broadcastMessage,
             targets |-> selectedTargets,
             broadcastId |-> broadcastId,
             confirmationRequired |-> prevState.isConfirmationRequired]
    IN
    /\ prevState.mounted
    /\ Len(selectedTargets) > 0 /\ prevState.broadcastMessage # ""
    /\ IF Len(selectedTargets) = 0
       THEN /\ broadcastState' =
                  [prevState EXCEPT !.error = "Please select at least one target"]
            /\ last' = Outcome("sendBroadcast", "BroadcastCenter", <<>>, "no target",
                               <<>>, <<>>)
       ELSE IF prevState.broadcastMessage = ""
       THEN /\ broadcastState' =
                  [prevState EXCEPT !.error = "Please enter a message to broadcast"]
            /\ last' = Outcome("sendBroadcast", "BroadcastCenter", <<>>, "no message",
                               <<>>, <<>>)
       ELSE /\ prevState.generated + 1 \in BroadcastNumbers
            /\ broadcastState' =
                  [prevState EXCEPT
                      !.error = "null",
                      !.broadcastHistory = <<broadcast>> \o @,
                      !.stats.totalBroadcasts = @ + 1,
                      !.stats.totalTargets = @ + Len(selectedTargets),
                      !.broadcastMessage = "",
                      !.generated = @ + 1,
                      !.timers = IF prevState.isConfirmationRequired
                                 THEN @ \cup {broadcast} ELSE @]
            /\ last' = Outcome("sendBroadcast", "BroadcastCenter", <<broadcastId>>, "none",
                               [i \in 1..Len(selectedTargets) |->
                                   WrapperCall("sendMessage", selectedTargets[i], broadcast,
                                               EventOptions(JSTrue, JSFalse))],
                               <<>>)
    /\ UNCHANGED BroadcastOther

\* the messages the Bridge may hand to handleConfirmation: the confirmation of a
\* broadcast whose timer is running by one of its targets, with or without a status of
\* its own, or another message
ConfirmationMessages(timers) ==
    {[type |-> "BROADCAST_CONFIRMATION", broadcastId |-> timer.id,
      moduleId |-> timer.targets[i], status |-> status] :
        <<timer, i, status>> \in {x \in timers \X (1..Cardinality(BroadcastTargets))
                                            \X {JSUndefined, JSString("failed")} :
                                     x[2] <= Len(x[1].targets)}}
    \cup {[type |-> "TARGET_DISCOVERY", broadcastId |-> "none",
           moduleId |-> "EventService", status |-> JSUndefined]}

BroadcastCenter_handleConfirmation ==
    \E message \in ConfirmationMessages(broadcastState.timers) :
        LET prevState == broadcastState
            confirmation ==
                [type |-> "broadcast.confirmation",
                 broadcastId |-> message.broadcastId,
                 moduleId |-> message.moduleId,
                 status |-> IF Truthy(message.status) THEN message.status.v
                            ELSE "confirmed"]
            updatedConfirmations == Append(prevState.confirmations, confirmation)
            successful == prevState.stats.successfulDeliveries
                          + (IF confirmation.status = "confirmed" THEN 1 ELSE 0)
            failed == prevState.stats.failedDeliveries
                      + (IF confirmation.status = "confirmed" THEN 0 ELSE 1)
            totalDeliveries == successful + failed
            \* message.deliveryTime is absent from these messages and counts as 0
            deliveryTime == 0
        IN
        /\ prevState.mounted
        /\ message.type = "BROADCAST_CONFIRMATION"
              => prevState.delivered < MaxConfirmations
        /\ broadcastState' =
              IF message.type = "BROADCAST_CONFIRMATION"
              THEN [prevState EXCEPT
                      !.confirmations =
                          IF Len(updatedConfirmations) > keptConfirmations
                          THEN SubSeq(updatedConfirmations,
                                      Len(updatedConfirmations) - keptConfirmations + 1,
                                      Len(updatedConfirmations))
                          ELSE updatedConfirmations,
                      !.stats.successfulDeliveries = successful,
                      !.stats.failedDeliveries = failed,
                      !.stats.averageDeliveryTime =
                          (@ * (totalDeliveries - 1) + deliveryTime) \div totalDeliveries,
                      !.delivered = @ + 1]
              ELSE prevState
        /\ last' = Outcome("handleConfirmation", "BroadcastCenter", <<message>>, "none",
                           <<>>, <<>>)
        /\ UNCHANGED BroadcastOther

\* a confirmation timer fires: handleConfirmationTimeout(broadcastId)
BroadcastCenter_handleConfirmationTimeout ==
    \E timer \in broadcastState.timers :
        LET prevState == broadcastState
            broadcastId == timer.id
            selectedTargets == prevState.selectedTargets
            confirmedTargets ==
                {prevState.confirmations[i].moduleId :
                    i \in {j \in 1..Len(prevState.confirmations) :
                              prevState.confirmations[j].broadcastId = broadcastId}}
            unconfirmedTargets ==
                SelectSeq(selectedTargets, LAMBDA target : target \notin confirmedTargets)
            timeoutConfirmations ==
                [i \in 1..Len(unconfirmedTargets) |->
                    [type |-> "broadcast.confirmation",
                     broadcastId |-> broadcastId,
                     moduleId |-> unconfirmedTargets[i],
                     status |-> "timeout"]]
        IN
        /\ broadcastState' =
              [prevState EXCEPT
                  !.confirmations = @ \o timeoutConfirmations,
                  !.stats.failedDeliveries = @ + Len(unconfirmedTargets),
                  !.timers = @ \ {timer}]
        /\ last' = Outcome("handleConfirmationTimeout", "BroadcastCenter", <<broadcastId>>,
                           "none", <<>>, <<>>)
        /\ UNCHANGED BroadcastOther

NextBroadcastCenter ==
    \/ BroadcastCenter_componentDidMount
    \/ BroadcastCenter_toggleTarget
    \/ BroadcastCenter_setBroadcastMessage
    \/ BroadcastCenter_sendBroadcast
    \/ BroadcastCenter_handleConfirmation
    \/ BroadcastCenter_handleConfirmationTimeout

SpecBroadcastCenter == Init /\ [][NextBroadcastCenter]_vars

----------------------------------------------------------------------------
\* The three wrappers side by side.  A module of the plugin holds one wrapper: the
\* calls on a wrapper are made while the other two are as constructed, so a run
\* follows one wrapper once that wrapper has been used.
PesUntouched == serviceBridge = NoBridge
SeesUntouched == eventService = NoBridge /\ performanceMetrics.errorCount = 0
MinimalUntouched ==
    /\ minimalServiceBridge = NoBridge
    /\ \A b \in Bridges : \A l \in bridgeListeners[b] : l.moduleId # MinimalModuleId

OnlyPes     == SeesUntouched /\ MinimalUntouched
OnlySees    == PesUntouched /\ MinimalUntouched
OnlyMinimal == PesUntouched /\ SeesUntouched

NextWrappers(maxSubs, maxEnqueued, unsubscribeThrows) ==
    \/ (OnlyPes /\ NextPES(unsubscribeThrows))
    \/ (OnlySees /\ NextSEES(maxSubs, maxEnqueued, unsubscribeThrows))
    \/ (OnlySees /\ ServiceExampleEventService_broadcastMessage(maxEnqueued))
    \/ (OnlyMinimal /\ NextMinimal(unsubscribeThrows))
    \/ Bridge_deliver

SpecWrappers == Init /\ [][NextWrappers(QueueRunSubs, SubsRunEnqueued, MayThrow)]_vars

\* the same with more subscriptions and a Bridge whose unsubscribeFromMessages never throws
SpecReliableUnsubscribe ==
    Init /\ [][NextWrappers(SubsRunSubs, SubsRunEnqueued, NeverThrows)]_vars

----------------------------------------------------------------------------
\* Several wrappers on one Bridge.  A module creates its wrapper with createEventService
\* (either class) or with forModule; every instance is a record of its own fields, and
\* the operations are the ones above, running on the fields of instance i.

\* the wrappers of a run: a first one and a second one
InstanceIds == {1, 2}
MaxInstanceLoad == 2     \* cap on the sum of the counters of all instances

InstanceModuleIds == {"m1", "m2"}
\* the ServiceExampleEventService instances of a run listen on one channel
ServiceExampleInstanceModuleIds == {"m1"}
\* what callers hand to the instances: sendMessage of PluginEventService, sendMessage of
\* ServiceExampleEventService, and the options of its subscribeToMessages
InstanceSendInputs ==
    {<<JSString("m1"), JSObject(JSString("ping")), DefaultOptions>>,
     <<JSString(""), JSObject(JSString("ping")), DefaultOptions>>}
ServiceExampleInstanceSendInputs ==
    {<<JSString("m1"), JSObject(JSString("ping")), EventOptions(JSFalse, JSTrue)>>}
ServiceExampleInstanceOptionInputs == {EventOptions(JSFalse, JSTrue)}
InstanceCallbacks == {JSFunction("cb1")}

IsPes(inst)  == inst.class = "PluginEventService"
IsSees(inst) == inst.class = "ServiceExampleEventService"

\* new PluginEventService(pluginId, moduleId): the field initialisers
NewPluginEventService(pluginId, moduleId) ==
    [class |-> "PluginEventService", pluginId |-> pluginId, moduleId |-> moduleId,
     serviceBridge |-> NoBridge, isConnected |-> FALSE, messageCount |-> 0,
     subscriptions |-> <<>>]

\* new ServiceExampleEventService(pluginId, moduleId): the field initialisers
NewServiceExampleEventService(pluginId, moduleId) ==
    [class |-> "ServiceExampleEventService", pluginId |-> pluginId, moduleId |-> moduleId,
     eventService |-> NoBridge, messageQueue |-> <<>>, subscribers |-> <<>>,
     performanceMetrics |-> InitialPerformanceMetrics]

\* the counters of an instance, and of all instances: the runs cap their sum
InstanceLoad(inst) ==
    IF IsPes(inst) THEN inst.messageCount
    ELSE inst.performanceMetrics.messagesSent + inst.performanceMetrics.messagesReceived
         + inst.performanceMetrics.errorCount

RECURSIVE TotalLoad(_)
TotalLoad(insts) ==
    IF insts = <<>> THEN 0 ELSE InstanceLoad(Head(insts)) + TotalLoad(Tail(insts))

WithinLoadBound(insts) == TotalLoad(insts) <= MaxInstanceLoad

\* the modules of a run use one wrapper class
OnlyClass(class) == \A i \in 1..Len(instances) : instances[i].class = class

\* createEventService(pluginId, moduleId) of eventService.ts
createEventService ==
    \E moduleId \in InstanceModuleIds :
        /\ Len(instances) + 1 \in InstanceIds
        /\ OnlyClass("PluginEventService")
        /\ instances' = Append(instances, NewPluginEventService(PesPluginId, moduleId))
        /\ lastInstance' = Len(instances) + 1
        /\ last' = Outcome("createEventService", "PluginEventService",
                           <<PesPluginId, moduleId>>, "none", <<>>, <<>>)
        /\ UNCHANGED <<pesVars, seesVars, minVars, bridgeListeners, sentIds, uiVars>>

\* createEventService(pluginId, moduleId) of the ServiceExampleEventService module
ServiceExample_createEventService ==
    \E moduleId \in ServiceExampleInstanceModuleIds :
        /\ Len(instances) + 1 \in InstanceIds
        /\ OnlyClass("ServiceExampleEventService")
        /\ instances' = Append(instances, NewServiceExampleEventService(SeesPluginId, moduleId))
        /\ lastInstance' = Len(instances) + 1
        /\ last' = Outcome("createEventService", "ServiceExampleEventService",
                           <<SeesPluginId, moduleId>>, "none", <<>>, <<>>)
        /\ UNCHANGED <<pesVars, seesVars, minVars, bridgeListeners, sentIds, uiVars>>

\* a forModule whose new instance takes over the counter and the registry of its parent
forModule_inheritsState(parent, moduleId) ==
    [parent EXCEPT !.moduleId = moduleId]

\* the instance forModule returns: a new one, connected through setServiceBridge when
\* the parent has a bridge
forModule(parent, moduleId) ==
    LET service == NewPluginEventService(parent.pluginId, moduleId) IN
    IF parent.serviceBridge # NoBridge
    THEN [service EXCEPT !.serviceBridge = parent.serviceBridge, !.isConnected = TRUE]
    ELSE service

PluginEventService_forModule ==
    \E i \in 1..Len(instances), moduleId \in InstanceModuleIds :
        /\ IsPes(instances[i])
        /\ Len(instances) + 1 \in InstanceIds
        /\ instances' = Append(instances, forModule(instances[i], moduleId))
        /\ lastInstance' = i
        /\ last' = Outcome("forModule", "PluginEventService", <<moduleId>>, "none", <<>>, <<>>)
        /\ UNCHANGED <<pesVars, seesVars, minVars, bridgeListeners, sentIds, uiVars>>

Instance_setServiceBridge ==
    \E i \in 1..Len(instances), bridge \in Bridges \cup {NoBridge} :
        /\ IsPes(instances[i])
        /\ IF bridge = NoBridge
           THEN /\ last' = Outcome("setServiceBridge", "PluginEventService", <<bridge>>,
                                   "INVALID_BRIDGE", <<>>, <<>>)
                /\ UNCHANGED instances
           ELSE /\ instances' = [instances EXCEPT ![i].serviceBridge = bridge,
                                                  ![i].isConnected = TRUE]
                /\ last' = Outcome("setServiceBridge", "PluginEventService", <<bridge>>,
                                   "none", <<>>, <<>>)
        /\ lastInstance' = i
        /\ UNCHANGED <<pesVars, seesVars, minVars, bridgeListeners, sentIds, uiVars>>

InstanceAvailable(inst) == inst.serviceBridge # NoBridge /\ inst.isConnected

\* the message an instance hands to the Bridge: messageId is
\* `${pluginId}_${moduleId}_${++messageCount}`
InstanceMessageWithSource(inst, message, options) ==
    [_source |-> [pluginId |-> inst.pluginId, moduleId |-> inst.moduleId],
     _metadata |-> [messageId |-> <<inst.pluginId, inst.moduleId, inst.messageCount + 1>>,
                    options |-> options]]
    @@ Spread(message)

Instance_sendMessage ==
    \E i \in 1..Len(instances), args \in InstanceSendInputs :
        LET inst == instances[i]
            targetModuleId == args[1]
            message == args[2]
            options == args[3]
        IN
        /\ IsPes(inst)
        /\ lastInstance' = i
        /\ IF \/ ~InstanceAvailable(inst)
              \/ ~Truthy(targetModuleId) \/ typeof(targetModuleId) # "string"
              \/ ~validateMessage(message)
              \/ ~validateOptions(options)
           THEN /\ last' = Outcome("sendMessage", "PluginEventService", args,
                        IF ~InstanceAvailable(inst) THEN "SERVICE_UNAVAILABLE"
                        ELSE IF ~Truthy(targetModuleId) \/ typeof(targetModuleId) # "string"
                             THEN "INVALID_TARGET"
                        ELSE IF ~validateMessage(message) THEN "INVALID_MESSAGE"
                        ELSE "INVALID_OPTIONS", <<>>, <<>>)
                /\ UNCHANGED <<instances, sentIds>>
           ELSE \E bridgeThrows \in BOOLEAN :
                LET env == InstanceMessageWithSource(inst, message, options) IN
                /\ instances' = [instances EXCEPT ![i].messageCount = @ + 1]
                /\ WithinLoadBound(instances')
                /\ sentIds' = sentIds \cup {env._metadata.messageId}
                /\ last' = Outcome("sendMessage", "PluginEventService", args,
                                   IF bridgeThrows THEN "SEND_FAILED" ELSE "none",
                                   <<BridgeCall("sendMessage", inst.serviceBridge,
                                                targetModuleId.v, env, options, bridgeThrows)>>,
                                   <<>>)
        /\ UNCHANGED <<pesVars, seesVars, minVars, bridgeListeners, uiVars>>

Instance_subscribeToMessages ==
    \E i \in 1..Len(instances), callback \in InstanceCallbacks :
        LET inst == instances[i]
            options == DefaultOptions
            args == <<callback, options>>
        IN
        /\ IsPes(inst)
        /\ lastInstance' = i
        /\ IF ~InstanceAvailable(inst)
           THEN /\ last' = Outcome("subscribeToMessages", "PluginEventService", args,
                                   "SERVICE_UNAVAILABLE", <<>>, <<>>)
                /\ UNCHANGED <<instances, bridgeListeners>>
           ELSE \E bridgeThrows \in BOOLEAN :
                /\ instances' = [instances EXCEPT ![i].subscriptions = SetAdd(@, callback)]
                /\ last' = Outcome("subscribeToMessages", "PluginEventService", args,
                                   IF bridgeThrows THEN "SUBSCRIBE_FAILED" ELSE "none",
                                   <<BridgeCall("subscribeToMessages", inst.serviceBridge,
                                                inst.moduleId, callback, options,
                                                bridgeThrows)>>, <<>>)
                /\ bridgeListeners' = IF bridgeThrows THEN bridgeListeners
                                      ELSE BridgeSubscribe(bridgeListeners, inst.serviceBridge,
                                                           inst.moduleId, callback)
        /\ UNCHANGED <<pesVars, seesVars, minVars, sentIds, uiVars>>

Instance_unsubscribeFromMessages ==
    \E i \in 1..Len(instances), callback \in InstanceCallbacks :
        LET inst == instances[i]
            options == DefaultOptions
            args == <<callback, options>>
        IN
        /\ IsPes(inst)
        /\ lastInstance' = i
        /\ IF ~InstanceAvailable(inst)
           THEN /\ last' = Outcome("unsubscribeFromMessages", "PluginEventService", args,
                                   "none", <<>>, <<>>)
                /\ UNCHANGED <<instances, bridgeListeners>>
           ELSE \E bridgeThrows \in BOOLEAN :
                /\ instances' = [instances EXCEPT ![i].subscriptions = SetDelete(@, callback)]
                /\ last' = Outcome("unsubscribeFromMessages", "PluginEventService", args,
                                   "none",
                                   <<BridgeCall("unsubscribeFromMessages", inst.serviceBridge,
                                                inst.moduleId, callback, options,
                                                bridgeThrows)>>, <<>>)
                /\ bridgeListeners' = IF bridgeThrows THEN bridgeListeners
                                      ELSE BridgeUnsubscribe(bridgeListeners,
                                                             inst.serviceBridge,
                                                             inst.moduleId, callback)
        /\ UNCHANGED <<pesVars, seesVars, minVars, sentIds, uiVars>>

Instance_unsubscribeAll ==
    \E i \in 1..Len(instances) :
        LET inst == instances[i] IN
        /\ IsPes(inst)
        /\ lastInstance' = i
        /\ \E throwing \in SUBSET Range(inst.subscriptions) :
            /\ last' = Outcome("unsubscribeAll", "PluginEventService", <<>>, "none",
                         IF inst.serviceBridge = NoBridge THEN <<>>
                         ELSE [k \in 1..Len(inst.subscriptions) |->
                                 BridgeCall("unsubscribeFromMessages", inst.serviceBridge,
                                            inst.moduleId, inst.subscriptions[k], JSUndefined,
                                            inst.subscriptions[k] \in throwing)],
                         <<>>)
            /\ bridgeListeners' = IF inst.serviceBridge = NoBridge THEN bridgeListeners
                                  ELSE UnsubscribeEach(bridgeListeners, inst.serviceBridge,
                                                       inst.moduleId, inst.subscriptions,
                                                       throwing)
        /\ instances' = [instances EXCEPT ![i].subscriptions = <<>>]
        /\ UNCHANGED <<pesVars, seesVars, minVars, sentIds, uiVars>>

\* ServiceExampleEventService instances

Instance_initialize ==
    \E i \in 1..Len(instances), bridge \in Bridges :
        /\ IsSees(instances[i])
        /\ lastInstance' = i
        /\ instances' = [instances EXCEPT ![i].eventService = bridge]
        /\ last' = Outcome("initialize", "ServiceExampleEventService", <<bridge>>, "none",
                           <<>>, <<>>)
        /\ UNCHANGED <<pesVars, seesVars, minVars, bridgeListeners, sentIds, uiVars>>

InstanceEnhancedMessage(inst, message, options, messageId) ==
    [_source |-> [pluginId |-> inst.pluginId, moduleId |-> inst.moduleId],
     _metadata |-> [options |-> options, messageId |-> messageId]]
    @@ Spread(message)

ServiceExampleInstance_sendMessage ==
    \E i \in 1..Len(instances), args \in ServiceExampleInstanceSendInputs :
        LET inst == instances[i]
            targetModuleId == args[1]
            message == args[2]
            options == args[3]
        IN
        /\ IsSees(inst)
        /\ lastInstance' = i
        /\ IF inst.eventService = NoBridge
           THEN /\ instances' = [instances EXCEPT ![i].performanceMetrics = logError(@)]
                /\ last' = Outcome("sendMessage", "ServiceExampleEventService", args, "none",
                                   <<>>, <<>>)
                /\ UNCHANGED sentIds
           ELSE \E bridgeThrows \in BOOLEAN, timestamp \in Timestamps,
                   random \in RandomSuffixes, latency \in Latencies :
                LET env == InstanceEnhancedMessage(inst, message, options,
                                                   generateId("msg", timestamp, random))
                IN
                /\ instances' =
                     [instances EXCEPT
                        ![i].performanceMetrics =
                            IF bridgeThrows THEN CatchError(@)
                            ELSE AfterSend(@, 1, latency),
                        ![i].messageQueue =
                            IF ReachesAddToQueue(options, bridgeThrows)
                            THEN addToQueue(@, QueueEntry(env, targetModuleId.v, 0))
                            ELSE @]
                /\ sentIds' = sentIds \cup {env._metadata.messageId}
                /\ last' = Outcome("sendMessage", "ServiceExampleEventService", args, "none",
                                   <<BridgeCall("sendMessage", inst.eventService,
                                                targetModuleId.v, env, options, bridgeThrows)>>,
                                   <<>>)
        /\ WithinLoadBound(instances')
        /\ UNCHANGED <<pesVars, seesVars, minVars, bridgeListeners, uiVars>>

\* the wrappedCallbacks of instance i that the registry of the instance or the Bridge holds
InstanceWrappers(i) ==
    {w \in Range(instances[i].subscribers)
           \cup UNION {{l.fn : l \in bridgeListeners[b]} : b \in Bridges} :
        w.v = "wrappedCallback" /\ w.id[1] = i}

\* a new function object: an identity no wrappedCallback in use has
FreshWrapperId(i) ==
    <<i, CHOOSE n \in 1..(Cardinality(InstanceWrappers(i)) + 1) :
            \A w \in InstanceWrappers(i) : w.id[2] # n>>

ServiceExampleInstance_subscribeToMessages ==
    \E i \in 1..Len(instances), callback \in InstanceCallbacks,
       options \in ServiceExampleInstanceOptionInputs :
        LET inst == instances[i]
            args == <<callback, options>>
        IN
        /\ IsSees(inst)
        /\ lastInstance' = i
        /\ IF inst.eventService = NoBridge
           THEN /\ instances' = [instances EXCEPT ![i].performanceMetrics = logError(@)]
                /\ last' = Outcome("subscribeToMessages", "ServiceExampleEventService", args,
                                   "none", <<>>, <<>>)
                /\ UNCHANGED bridgeListeners
           ELSE \E bridgeThrows \in BOOLEAN :
                LET wrapped == wrappedCallback(FreshWrapperId(i), callback, options)
                    call == BridgeCall("subscribeToMessages", inst.eventService,
                                       inst.moduleId, wrapped, options, bridgeThrows)
                    replay == /\ ~bridgeThrows /\ Truthy(options.persist)
                              /\ Len(inst.messageQueue) > 0
                IN
                \* a module subscribes while no wrappedCallback of its instance is in use
                /\ InstanceWrappers(i) = {}
                /\ bridgeListeners' = IF bridgeThrows THEN bridgeListeners
                                      ELSE BridgeSubscribe(bridgeListeners, inst.eventService,
                                                           inst.moduleId, wrapped)
                /\ \E throwing \in SUBSET (IF replay THEN 1..Len(inst.messageQueue) ELSE {}) :
                     instances' =
                       [instances EXCEPT
                          ![i].subscribers = SetAdd(@, wrapped),
                          ![i].performanceMetrics =
                              IF bridgeThrows THEN CatchError(@)
                              ELSE IF replay
                                   THEN AfterDelivery(@, Len(inst.messageQueue),
                                                      Cardinality(throwing))
                                   ELSE @]
                /\ last' = Outcome("subscribeToMessages", "ServiceExampleEventService", args,
                                   "none", <<call>>,
                                   IF replay THEN replayQueuedMessages(inst.messageQueue, wrapped)
                                   ELSE <<>>)
        /\ WithinLoadBound(instances')
        /\ UNCHANGED <<pesVars, seesVars, minVars, sentIds, uiVars>>

ServiceExampleInstance_unsubscribeFromMessages ==
    \E i \in 1..Len(instances), callback \in InstanceCallbacks :
        LET inst == instances[i]
            options == DefaultOptions
            args == <<callback, options>>
        IN
        /\ IsSees(inst)
        /\ lastInstance' = i
        /\ IF inst.eventService = NoBridge
           THEN /\ instances' = [instances EXCEPT ![i].performanceMetrics = logError(@)]
                /\ last' = Outcome("unsubscribeFromMessages", "ServiceExampleEventService",
                                   args, "none", <<>>, <<>>)
                /\ UNCHANGED bridgeListeners
           ELSE \E bridgeThrows \in BOOLEAN :
                /\ last' = Outcome("unsubscribeFromMessages", "ServiceExampleEventService",
                                   args, "none",
                                   <<BridgeCall("unsubscribeFromMessages", inst.eventService,
                                                inst.moduleId, callback, options,
                                                bridgeThrows)>>, <<>>)
                /\ IF bridgeThrows
                   THEN /\ instances' = [instances EXCEPT
                                            ![i].performanceMetrics = CatchError(@)]
                        /\ UNCHANGED bridgeListeners
                   ELSE /\ bridgeListeners' = BridgeUnsubscribe(bridgeListeners,
                                                  inst.eventService, inst.moduleId, callback)
                        /\ instances' = [instances EXCEPT
                                            ![i].subscribers = SetDelete(@, callback)]
        /\ WithinLoadBound(instances')
        /\ UNCHANGED <<pesVars, seesVars, minVars, sentIds, uiVars>>

Instance_clearQueue ==
    \E i \in 1..Len(instances) :
        /\ IsSees(instances[i])
        /\ lastInstance' = i
        /\ instances' = [instances EXCEPT ![i].messageQueue = <<>>]
        /\ last' = Outcome("clearQueue", "ServiceExampleEventService", <<>>, "none",
                           <<>>, <<>>)
        /\ UNCHANGED <<pesVars, seesVars, minVars, bridgeListeners, sentIds, uiVars>>

Instance_resetMetrics ==
    \E i \in 1..Len(instances) :
        /\ IsSees(instances[i])
        /\ lastInstance' = i
        /\ instances' = [instances EXCEPT ![i].performanceMetrics =
                            InitialPerformanceMetrics]
        /\ last' = Outcome("resetMetrics", "ServiceExampleEventService", <<>>, "none",
                           <<>>, <<>>)
        /\ UNCHANGED <<pesVars, seesVars, minVars, bridgeListeners, sentIds, uiVars>>

Instance_cleanup ==
    \E i \in 1..Len(instances) :
        LET inst == instances[i] IN
        /\ IsSees(inst)
        /\ lastInstance' = i
        /\ \E throwAt \in 0..(IF inst.eventService = NoBridge THEN 0
                              ELSE Len(inst.subscribers)) :
            LET n == IF inst.eventService = NoBridge THEN 0
                     ELSE IF throwAt = 0 THEN Len(inst.subscribers) ELSE throwAt
                calls == [k \in 1..n |->
                            BridgeCall("unsubscribeFromMessages", inst.eventService,
                                       inst.moduleId, inst.subscribers[k], JSUndefined,
                                       k = throwAt)]
                done == IF throwAt = 0 THEN SubSeq(inst.subscribers, 1, n)
                        ELSE SubSeq(inst.subscribers, 1, throwAt - 1)
            IN
            /\ last' = Outcome("cleanup", "ServiceExampleEventService", <<>>, "none", calls,
                               <<>>)
            /\ bridgeListeners' = IF inst.eventService = NoBridge THEN bridgeListeners
                                  ELSE UnsubscribeEach(bridgeListeners, inst.eventService,
                                                       inst.moduleId, done, {})
            /\ instances' = IF throwAt = 0
                            THEN [instances EXCEPT ![i].subscribers = <<>>,
                                                   ![i].messageQueue = <<>>]
                            ELSE [instances EXCEPT ![i].performanceMetrics = logError(@)]
        /\ WithinLoadBound(instances')
        /\ UNCHANGED <<pesVars, seesVars, minVars, sentIds, uiVars>>

\* The host delivers a message on a channel: each wrappedCallback listening there counts
\* the message on the instance that created it and calls the caller's callback.
RECURSIVE CountReceived(_, _, _)
CountReceived(insts, fns, throwing) ==
    IF fns = <<>> THEN insts
    ELSE LET w == Head(fns) IN
         CountReceived(
            IF w.v = "wrappedCallback"
            THEN [insts EXCEPT ![w.id[1]].performanceMetrics =
                      AfterDelivery(@, 1, IF w \in throwing THEN 1 ELSE 0)]
            ELSE insts,
            Tail(fns), throwing)

Instances_deliver ==
    \E bridge \in Bridges, moduleId \in InstanceModuleIds, message \in DeliveredMessages :
        LET fns == SetToSeq({l.fn : l \in {l \in bridgeListeners[bridge] :
                                             l.moduleId = moduleId}})
            wrappers == {w \in Range(fns) : w.v = "wrappedCallback"}
        IN
        \E throwing \in SUBSET wrappers :
            /\ instances # <<>>
            /\ fns # <<>>
            /\ instances' = CountReceived(instances, fns, throwing)
            /\ WithinLoadBound(instances')
            /\ lastInstance' = 0
            /\ last' = Outcome("deliver", "Bridge", <<bridge, moduleId, message>>, "none",
                         <<>>,
                         [k \in 1..Len(fns) |->
                            Invocation(IF fns[k] \in wrappers THEN fns[k].callback ELSE fns[k],
                                       message, "live", moduleId, 0)])
            /\ UNCHANGED <<pesVars, seesVars, minVars, bridgeListeners, sentIds, uiVars>>

NextInstances ==
    \/ createEventService
    \/ ServiceExample_createEventService
    \/ PluginEventService_forModule
    \/ Instance_setServiceBridge
    \/ Instance_sendMessage
    \/ Instance_subscribeToMessages
    \/ Instance_unsubscribeFromMessages
    \/ Instance_unsubscribeAll
    \/ Instance_initialize
    \/ ServiceExampleInstance_sendMessage
    \/ ServiceExampleInstance_subscribeToMessages
    \/ ServiceExampleInstance_unsubscribeFromMessages
    \/ Instance_clearQueue
    \/ Instance_resetMetrics
    \/ Instance_cleanup
    \/ Instances_deliver

SpecInstances == Init /\ [][NextInstances]_vars

----------------------------------------------------------------------------
\* Properties.

\* what the specification calls well-formed arguments
IsNonEmptyString(x) == x.ty = "string" /\ x.v # ""
IsBoolean(x) == x.ty = "boolean"
WellFormedTarget(t) == IsNonEmptyString(t)
WellFormedMessage(m) == m.ty = "object" /\ m.v = "object" /\ IsNonEmptyString(m.type)
WellFormedOptions(o) == IsBoolean(o.remote) /\ (o.persist = JSUndefined \/ IsBoolean(o.persist))

IsSend(l)      == l.op = "sendMessage"
IsSubscribe(l) == l.op = "subscribeToMessages"
OfPes(l)  == l.variant = "PluginEventService"
OfSees(l) == l.variant = "ServiceExampleEventService"
\* the bridge of the instance the call was made on
BridgeOf(l) == IF OfPes(l) THEN serviceBridge ELSE eventService
\* the call invoked the Bridge once and the Bridge threw / returned
BridgeThrew(l)    == Len(l.bridgeCalls) = 1 /\ l.bridgeCalls[1].threw
BridgeReturned(l) == Len(l.bridgeCalls) = 1 /\ ~l.bridgeCalls[1].threw

Min(a, b) == IF a < b THEN a ELSE b

\* C1: on an instance on which no bridge has been set, every sendMessage and every
\* subscribeToMessages fails with code SERVICE_UNAVAILABLE and invokes no Bridge method.
C1_UninitializedFailsUnavailable ==
    ((IsSend(last) \/ IsSubscribe(last)) /\ BridgeOf(last) = NoBridge)
        => (last.code = "SERVICE_UNAVAILABLE" /\ last.bridgeCalls = <<>>)

\* C2: once setServiceBridge has succeeded the instance stays available, whatever
\* call follows (sends, subscribes, unsubscribes, unsubscribeAll, further setServiceBridge).
C2_ConnectedStaysConnected == [][isServiceAvailable => isServiceAvailable']_vars

C2_Witness ==
    /\ isServiceAvailable
    /\ messageCount > 0
    /\ last.op = "setServiceBridge" /\ last.code = "INVALID_BRIDGE"

\* C3: on a connected instance sendMessage fails with INVALID_TARGET on an empty or
\* non-string target; otherwise with INVALID_MESSAGE on a message that is not an object
\* with a non-empty string type; otherwise with INVALID_OPTIONS on options whose remote
\* is not boolean or whose persist is present and not boolean.
C3_ValidationOrder ==
    (IsSend(last) /\ OfPes(last) /\ isServiceAvailable) =>
        LET t == last.args[1]
            m == last.args[2]
            o == last.args[3]
        IN
        /\ ~WellFormedTarget(t) => last.code = "INVALID_TARGET"
        /\ (WellFormedTarget(t) /\ ~WellFormedMessage(m)) => last.code = "INVALID_MESSAGE"
        /\ (WellFormedTarget(t) /\ WellFormedMessage(m) /\ ~WellFormedOptions(o))
              => last.code = "INVALID_OPTIONS"
        /\ (WellFormedTarget(t) /\ WellFormedMessage(m) /\ WellFormedOptions(o))
              => last.code \in {"none", "SEND_FAILED"}

\* a call whose target, message and options are all malformed: the target decides
C3_Witness ==
    /\ IsSend(last) /\ OfPes(last) /\ isServiceAvailable
    /\ ~WellFormedTarget(last.args[1])
    /\ ~WellFormedMessage(last.args[2])
    /\ ~WellFormedOptions(last.args[3])
    /\ last.code = "INVALID_TARGET"

\* C4: a sendMessage whose target, message or options are malformed never reaches the
\* Bridge and changes nothing: no Bridge call, counters, queue and registry unchanged;
\* in every wrapper variant.
C4_InvalidSendStep ==
    (/\ IsSend(last')
     /\ ~(/\ WellFormedTarget(last'.args[1])
          /\ WellFormedMessage(last'.args[2])
          /\ WellFormedOptions(last'.args[3])))
    => /\ last'.bridgeCalls = <<>>
       /\ messageCount' = messageCount
       /\ performanceMetrics'.messagesSent = performanceMetrics.messagesSent
       /\ messageQueue' = messageQueue
       /\ subscriptions' = subscriptions
       /\ subscribers' = subscribers

C4_InvalidSendChangesNothing == [][C4_InvalidSendStep]_vars

\* C5: when Bridge.sendMessage throws during a sendMessage with well-formed arguments on
\* a connected instance, the call fails with SEND_FAILED and errorCount counts the failure.
C5_BridgeThrowStep ==
    (/\ IsSend(last') /\ BridgeThrew(last')
     /\ WellFormedTarget(last'.args[1])
     /\ WellFormedMessage(last'.args[2])
     /\ WellFormedOptions(last'.args[3]))
    => /\ last'.code = "SEND_FAILED"
       /\ performanceMetrics'.errorCount > performanceMetrics.errorCount

C5_BridgeFailureRaised == [][C5_BridgeThrowStep]_vars

\* C6: the replay queue gains an entry only in a sendMessage with options.persist set whose
\* Bridge call returned; such a send appends exactly one entry, the envelope handed to the
\* Bridge; every other sendMessage (Bridge threw, or not persistent) leaves the queue as it was.
C6_QueueStep ==
    LET persisted == /\ IsSend(last') /\ OfSees(last')
                     /\ Truthy(last'.args[3].persist)
                     /\ BridgeReturned(last')
        gained == \E i \in 1..Len(messageQueue') : messageQueue'[i] \notin Range(messageQueue)
        n == Len(messageQueue')
    IN
    /\ gained => persisted
    /\ persisted =>
          /\ n >= 1 /\ n <= Len(messageQueue) + 1
          /\ messageQueue'[n].message = last'.bridgeCalls[1].arg
          /\ messageQueue'[n].target = last'.args[1].v
          /\ messageQueue'[n] \notin Range(messageQueue)
          /\ \A i \in 1..(n - 1) : messageQueue'[i] \in Range(messageQueue)
    /\ (IsSend(last') /\ ~persisted) => messageQueue' = messageQueue

C6_PersistOnlyAfterDelegation == [][C6_QueueStep]_vars

\* a persistent send on which the Bridge threw, with a backlog in the queue
C6_Witness ==
    /\ IsSend(last) /\ OfSees(last)
    /\ Truthy(last.args[3].persist)
    /\ BridgeThrew(last)
    /\ Len(messageQueue) > 0

\* C7: the replay queue never holds more than maxQueueSize entries; after n enqueues it
\* holds exactly the min(n, maxQueueSize) most recently enqueued envelopes, oldest first;
\* the send that enqueues returns normally.
C7_QueueBound ==
    LET n == Len(messageQueue) IN
    /\ n <= maxQueueSize
    /\ n = Min(Len(enqueued), maxQueueSize)
    /\ \A i \in 1..n : /\ messageQueue[i].seq = Len(enqueued) - n + i
                       /\ messageQueue[i].target = enqueued[Len(enqueued) - n + i]
    /\ (IsSend(last) /\ OfSees(last) /\ BridgeReturned(last)) => last.code = "none"

\* more envelopes were enqueued than the queue holds
C7_Witness ==
    /\ Len(enqueued) > maxQueueSize
    /\ Len(messageQueue) = maxQueueSize
    /\ IsSend(last) /\ OfSees(last) /\ BridgeReturned(last)
    /\ Truthy(last.args[3].persist)

\* the ranks of the last min(N, maxQueueSize) envelopes persisted for a channel
PersistedFor(channel) ==
    SelectSeq([i \in 1..Len(enqueued) |-> i], LAMBDA i : enqueued[i] = channel)

ExpectedReplay(channel) ==
    LET sent == PersistedFor(channel)
        n == Min(Len(sent), maxQueueSize)
    IN SubSeq(sent, Len(sent) - n + 1, Len(sent))

\* C8: after N successful persistent sends to channel C, subscribeToMessages(cb, {persist:
\* true}) on C invokes cb, before it returns, exactly min(N, maxQueueSize) times, with the
\* last min(N, maxQueueSize) envelopes sent to C in send order.
C8_ReplayCompleteness ==
    (/\ IsSubscribe(last) /\ OfSees(last)
     /\ Truthy(last.args[2].persist)
     /\ BridgeReturned(last))
    => /\ [i \in 1..Len(last.invoked) |-> last.invoked[i].seq] = ExpectedReplay(SeesModuleId)
       /\ \A i \in 1..Len(last.invoked) : /\ last.invoked[i].callback = last.args[1]
                                          /\ last.invoked[i].via = "replay"

\* C9: every envelope replayed to a callback subscribing on channel C was sent to target C.
C9_ReplayChannelScoped ==
    (IsSubscribe(last) /\ OfSees(last)) =>
        \A i \in 1..Len(last.invoked) :
            last.invoked[i].via = "replay" => last.invoked[i].target = SeesModuleId

\* C10: subscribing the same callback twice leaves one registration for it, and a message
\* delivered on the channel invokes the callback once.
C10_SubscribeIdempotent ==
    /\ \A cb \in Callbacks :
          Cardinality({i \in 1..Len(subscribers) : subscribers[i].callback = cb}) <= 1
    /\ last.op = "deliver" =>
          \A cb \in Callbacks :
              Cardinality({i \in 1..Len(last.invoked) : last.invoked[i].callback = cb}) <= 1

\* C11: once unsubscribeFromMessages(cb) has returned (the Bridge call did not throw), a
\* message the Bridge delivers right afterwards does not invoke cb.
C11_DeliveryAfterUnsubscribeStep ==
    (/\ last.op = "unsubscribeFromMessages" /\ BridgeReturned(last)
     /\ last'.op = "deliver")
    => \A i \in 1..Len(last'.invoked) : last'.invoked[i].callback # last.args[1]

C11_UnsubscribeIsFinal == [][C11_DeliveryAfterUnsubscribeStep]_vars

IsUnsubscribe(l) == l.op = "unsubscribeFromMessages"

\* the callback has a registration in the registry of the wrapper the call is made on
Registered(cb, l) ==
    IF OfPes(l) THEN cb \in Range(subscriptions)
    ELSE \E i \in 1..Len(subscribers) : subscribers[i].callback = cb

\* C12: unsubscribeFromMessages(cb) for a callback that is not registered returns normally
\* and leaves the registry as it was; a second unsubscribeFromMessages(cb) right after
\* the first changes nothing in the registry.
C12_UnsubscribeStep ==
    (IsUnsubscribe(last') /\ (OfPes(last') \/ OfSees(last'))) =>
        /\ ~Registered(last'.args[1], last') =>
              /\ last'.code = "none"
              /\ subscriptions' = subscriptions
              /\ subscribers' = subscribers
        /\ (/\ IsUnsubscribe(last) /\ last.variant = last'.variant
            /\ last.args[1] = last'.args[1])
           => /\ last'.code = "none"
              /\ subscriptions' = subscriptions
              /\ subscribers' = subscribers

C12_UnsubscribeUnregisteredIsNoOp == [][C12_UnsubscribeStep]_vars

\* an unsubscribe of a callback that has no listener on the Bridge, on which the Bridge
\* threw, while another callback is registered
C12_Witness ==
    /\ IsUnsubscribe(last) /\ OfPes(last) /\ isServiceAvailable
    /\ BridgeThrew(last)
    /\ subscriptions # <<>>
    /\ last.args[1] \notin Range(subscriptions)
    /\ \A l \in bridgeListeners[serviceBridge] : l.fn # last.args[1]

IsUnsubscribeAll(l) == l.op \in {"unsubscribeAll", "cleanup"}

\* C13: unsubscribeAll (cleanup) calls Bridge.unsubscribeFromMessages exactly once for each
\* registration tracked when it is called and leaves the registry empty, also when a
\* Bridge call throws; a second call right after the first makes no Bridge call and
\* changes neither the registry nor the Bridge's listeners.
C13_UnsubscribeAllStep ==
    IsUnsubscribeAll(last') =>
        LET tracked == IF OfPes(last') THEN subscriptions ELSE subscribers
            calls == last'.bridgeCalls
        IN
        /\ Len(calls) = Len(tracked)
        /\ \A i \in 1..Len(calls) : calls[i].method = "unsubscribeFromMessages"
        /\ \A fn \in Range(tracked) :
              Cardinality({i \in 1..Len(calls) : calls[i].arg = fn}) = 1
        /\ subscriptions' = <<>> /\ subscribers' = <<>>
        /\ (IsUnsubscribeAll(last) /\ last.variant = last'.variant)
              => /\ calls = <<>>
                 /\ bridgeListeners' = bridgeListeners

C13_UnsubscribeAllEmptiesRegistry == [][C13_UnsubscribeAllStep]_vars

\* the functions the wrapper of call l has handed to Bridge.subscribeToMessages and
\* that are still listening: the callbacks themselves for PluginEventService, the
\* wrappedCallbacks for ServiceExampleEventService
StillSubscribed(l) ==
    {x \in UNION {bridgeListeners[b] : b \in Bridges} :
        IF OfPes(l) THEN x.moduleId = PesModuleId /\ x.fn.v # "wrappedCallback"
        ELSE x.fn.v = "wrappedCallback"}

IsBroadcast(l) == l.op \in {"broadcastMessage", "handleSendBroadcast"}

\* the broadcast was made on a connected instance
BroadcastConnected(l) ==
    IF l.op = "handleSendBroadcast" THEN l.args[4] ELSE eventService # NoBridge

ReportsEachTarget(result, calls) ==
    /\ result.ty = "object" /\ result.v = "results"
    /\ Len(result.items) = Len(calls)
    /\ \A i \in 1..Len(calls) :
          /\ result.items[i].target = calls[i].moduleId
          /\ result.items[i].status = IF calls[i].threw THEN "rejected" ELSE "fulfilled"

\* C16: broadcastMessage does not throw on a failing target and returns an aggregate
\* result that reports for each target whether its send was fulfilled or rejected.
C16_BroadcastAggregateResult ==
    (last.op = "broadcastMessage" /\ eventService # NoBridge) =>
        /\ last.code = "none"
        /\ ReportsEachTarget(broadcastMessage_returns, last.bridgeCalls)

\* the broadcast correlation id carried by the envelopes of a broadcastMessage call
BroadcastIdOf(l) == l.bridgeCalls[1].arg._broadcast.id

\* one sendMessage per element of the list, in list order, every envelope tagged with the
\* same id, the full list and its own target
C17_OneSendPerTarget(l) ==
    LET targets == l.args[1]
        calls == l.bridgeCalls
    IN
    /\ Len(calls) = Len(targets)
    /\ \A i \in 1..Len(calls) :
          /\ calls[i].method = "sendMessage"
          /\ calls[i].moduleId = targets[i]
          /\ calls[i].arg._broadcast.id = BroadcastIdOf(l)
          /\ calls[i].arg._broadcast.targets = targets
          /\ calls[i].arg._broadcast.currentTarget = targets[i]

\* C17: one broadcastMessage call produces exactly one sendMessage per element of targets,
\* in list order, all envelopes carrying the same broadcast correlation id, the full
\* targets list and a currentTarget equal to their target; two different broadcastMessage
\* calls never share a correlation id.
C17_BroadcastStep ==
    (last'.op = "broadcastMessage" /\ eventService # NoBridge) =>
        /\ C17_OneSendPerTarget(last')
        /\ (last.op = "broadcastMessage" /\ last.bridgeCalls # <<>>)
              => BroadcastIdOf(last') # BroadcastIdOf(last)

C17_BroadcastCorrelation == [][C17_BroadcastStep]_vars

\* the fields of a message that the wrappers are to stamp themselves
StampedFields == {"id", "timestamp", "source", "_source", "_metadata"}

\* C18: the envelope handed to Bridge.sendMessage carries no id, timestamp or source
\* (_source, _metadata) value supplied by the caller in the message: those fields come
\* from the wrapper, so two sends that differ only in such caller-supplied fields hand
\* the Bridge the same stamped values.
C18_StampingAuthoritative ==
    (IsSend(last) /\ Len(last.bridgeCalls) = 1) =>
        LET supplied == OwnProps(last.args[2])
            envelope == last.bridgeCalls[1].arg
        IN
        \A k \in StampedFields \cap DOMAIN supplied :
            k \in DOMAIN envelope => envelope[k] # supplied[k]

OfMinimal(l) == l.variant = "MinimalPluginEventService"

\* the bridge and the identity of the instance the call was made on
InstanceBridge(l) ==
    IF OfPes(l) THEN serviceBridge
    ELSE IF OfSees(l) THEN eventService
    ELSE minimalServiceBridge

InstanceIdentity(l) ==
    IF OfPes(l) THEN [pluginId |-> PesPluginId, moduleId |-> PesModuleId]
    ELSE IF OfSees(l) THEN [pluginId |-> SeesPluginId, moduleId |-> SeesModuleId]
    ELSE [pluginId |-> MinimalPluginId, moduleId |-> MinimalModuleId]

\* C19: every envelope passed to Bridge.sendMessage carries a _source whose pluginId and
\* moduleId are those of the sending instance, and a sendMessage call that returns normally
\* on a connected instance has called Bridge.sendMessage exactly once, with the caller's
\* targetModuleId and the type of the caller's message.
C19_StampedSourceAndSingleDelegation ==
    LET calls == last.bridgeCalls IN
    /\ \A i \in 1..Len(calls) :
          calls[i].method = "sendMessage" => calls[i].arg._source = InstanceIdentity(last)
    /\ (IsSend(last) /\ last.code = "none" /\ InstanceBridge(last) # NoBridge) =>
          /\ Len(calls) = 1
          /\ calls[1].method = "sendMessage"
          /\ calls[1].moduleId = last.args[1].v
          /\ calls[1].arg.type = TypeOf(last.args[2])

\* a delivered send whose message carried a _source of the caller's own
C19_Witness ==
    /\ IsSend(last) /\ OfPes(last) /\ last.code = "none"
    /\ BridgeReturned(last)
    /\ "_source" \in DOMAIN OwnProps(last.args[2])
    /\ last.args[1].v = "m2"

\* the Bridge.sendMessage invocations among the Bridge calls of a step
SendCalls(l) == SelectSeq(l.bridgeCalls, LAMBDA c : c.method = "sendMessage")

\* the send is delegated: the instance is connected and, where the wrapper validates,
\* the arguments are well-formed
Delegated(l) ==
    /\ InstanceBridge(l) # NoBridge
    /\ OfPes(l) => /\ WellFormedTarget(l.args[1])
                   /\ WellFormedMessage(l.args[2])
                   /\ WellFormedOptions(l.args[3])

\* C20: Bridge.sendMessage is invoked in the order of the sendMessage calls: a send that is
\* delegated invokes the Bridge exactly once, before it returns, for the caller's target
\* and with the envelope of this very call; a send that is not delegated invokes nothing;
\* a broadcast invokes the Bridge for its targets in list order; no other operation
\* invokes Bridge.sendMessage, so nothing is held back, repeated or dropped.
C20_SendOrderStep ==
    LET sends == SendCalls(last') IN
    /\ (IsSend(last') /\ Delegated(last')) =>
          /\ Len(sends) = 1
          /\ sends[1].moduleId = last'.args[1].v
          /\ sends[1].arg.type = TypeOf(last'.args[2])
          /\ OfPes(last') => /\ messageCount' = messageCount + 1
                             /\ sends[1].arg._metadata.messageId[3] = messageCount'
    /\ (IsSend(last') /\ ~Delegated(last')) => sends = <<>>
    /\ (IsBroadcast(last') /\ sends # <<>>) =>
          [i \in 1..Len(sends) |-> sends[i].moduleId] = last'.args[1]
    /\ (~IsSend(last') /\ ~IsBroadcast(last')) => sends = <<>>

C20_SendOrderPreserved == [][C20_SendOrderStep]_vars

\* the second send of an instance, delegated as the second
C20_Witness ==
    /\ IsSend(last) /\ OfPes(last) /\ BridgeReturned(last)
    /\ messageCount = 2
    /\ last.bridgeCalls[1].arg._metadata.messageId[3] = 2

\* C21: message ids are never reused: an envelope that a PluginEventService hands to the
\* Bridge carries a message id that no envelope handed to the Bridge before carried,
\* whether the earlier one came from the same instance or from another instance on the
\* same Bridge (created by createEventService or by forModule).
C21_FreshIdStep ==
    OfPes(last') =>
        \A k \in 1..Len(last'.bridgeCalls) :
            last'.bridgeCalls[k].method = "sendMessage" =>
                last'.bridgeCalls[k].arg._metadata.messageId \notin sentIds

C21_MessageIdsUnique == [][C21_FreshIdStep]_vars

\* the Bridge calls of a step on which the Bridge threw
ThrownCalls(l) == {k \in 1..Len(l.bridgeCalls) : l.bridgeCalls[k].threw}

\* C22: errorCount increases by exactly one for each failure: an operation of
\* ServiceExampleEventService that invokes the Bridge and no callback raises errorCount
\* by the number of its Bridge calls that threw (a broadcast to [a, b] where the Bridge
\* throws for b only raises it by 1).
C22_ErrorCountStep ==
    (OfSees(last') /\ last'.bridgeCalls # <<>> /\ last'.invoked = <<>>) =>
        performanceMetrics'.errorCount
            = performanceMetrics.errorCount + Cardinality(ThrownCalls(last'))

C22_ErrorCountByOne == [][C22_ErrorCountStep]_vars

\* the messagesSent statistic of the wrapper the call was made on
MessagesSentOf(l, stats, metrics) ==
    IF OfPes(l) THEN stats.messagesSent ELSE metrics.messagesSent

\* C23: the messagesSent statistic counts the sends whose Bridge delegation completed
\* without throwing: a sendMessage raises it by one when the Bridge call returned and
\* leaves it as it was when the Bridge threw or the call failed before the Bridge.
C23_MessagesSentStep ==
    (IsSend(last') /\ (OfPes(last') \/ OfSees(last'))) =>
        MessagesSentOf(last', getServiceStats', performanceMetrics')
            = MessagesSentOf(last', getServiceStats, performanceMetrics)
              + (IF BridgeReturned(last') THEN 1 ELSE 0)

C23_MessagesSentCountsSuccesses == [][C23_MessagesSentStep]_vars

\* the wrappedCallbacks that listen on a channel of a bridge
WrappedListeners(bridge, moduleId) ==
    {l \in bridgeListeners[bridge] : l.moduleId = moduleId /\ l.fn.v = "wrappedCallback"}

\* C24: every invocation of a subscriber's callback through the wrapper, by a live delivery
\* or by a replay, raises messagesReceived by exactly one, and the callback receives
\* exactly the message that was delivered (the message the Bridge delivered, or the
\* envelope as it was queued); nothing else raises messagesReceived.
C24_ReceivedStep ==
    LET received == performanceMetrics'.messagesReceived - performanceMetrics.messagesReceived
    IN
    /\ last'.op = "deliver" =>
          /\ received = Cardinality(WrappedListeners(last'.args[1], last'.args[2]))
          /\ Len(last'.invoked) = Cardinality({l \in bridgeListeners[last'.args[1]] :
                                                 l.moduleId = last'.args[2]})
          /\ \A k \in 1..Len(last'.invoked) : last'.invoked[k].message = last'.args[3]
    /\ (IsSubscribe(last') /\ OfSees(last')) =>
          /\ received = Len(last'.invoked)
          /\ last'.invoked # <<>> =>
                /\ Len(last'.invoked) = Len(messageQueue)
                /\ \A k \in 1..Len(last'.invoked) :
                      last'.invoked[k].message = messageQueue[k].message
    /\ (last'.op \notin {"deliver", "subscribeToMessages", "resetMetrics"}) => received = 0

C24_ReceivedCountedOnce == [][C24_ReceivedStep]_vars

\* a replay has gone through the wrappedCallback and has been counted
C24_Witness ==
    /\ IsSubscribe(last) /\ OfSees(last)
    /\ last.invoked # <<>>
    /\ last.invoked[1].via = "replay"
    /\ performanceMetrics.messagesReceived = Len(last.invoked)

\* C25: on a connected instance subscribeToMessages with a callback that is not a function
\* fails with INVALID_CALLBACK, and otherwise with malformed options fails with
\* INVALID_OPTIONS; in both cases the registry is as it was and Bridge.subscribeToMessages
\* has not been invoked.
C25_InvalidSubscribeStep ==
    (IsSubscribe(last') /\ (OfPes(last') \/ OfSees(last')) /\ InstanceBridge(last') # NoBridge) =>
        LET callback == last'.args[1]
            options == last'.args[2]
            rejected(code) == /\ last'.code = code
                              /\ last'.bridgeCalls = <<>>
                              /\ subscriptions' = subscriptions
                              /\ subscribers' = subscribers
        IN
        /\ typeof(callback) # "function" => rejected("INVALID_CALLBACK")
        /\ (typeof(callback) = "function" /\ ~WellFormedOptions(options))
              => rejected("INVALID_OPTIONS")

C25_InvalidSubscribeRejected == [][C25_InvalidSubscribeStep]_vars

\* C26: when Bridge.subscribeToMessages throws during a subscribeToMessages with a function
\* callback and well-formed options on a connected instance, the call fails to its caller
\* with code SUBSCRIBE_FAILED.
C26_SubscribeThrowStep ==
    (/\ IsSubscribe(last') /\ (OfPes(last') \/ OfSees(last'))
     /\ BridgeThrew(last')
     /\ typeof(last'.args[1]) = "function"
     /\ WellFormedOptions(last'.args[2]))
    => last'.code = "SUBSCRIBE_FAILED"

C26_SubscribeFailureRaised == [][C26_SubscribeThrowStep]_vars

\* the instances that own a wrappedCallback listening on a channel of a bridge
Receivers(bridge, moduleId) == {l.fn.id[1] : l \in WrappedListeners(bridge, moduleId)}

\* C27: instances are isolated.  A call on one instance leaves every other instance as it
\* was (queue, registry, message counter, performance counters), also when they share the
\* Bridge; creating an instance changes no existing one; a delivery changes only the
\* performance counters of the instances whose wrappedCallback listens on the channel.
\* forModule leaves its parent as it was and yields an instance that has the parent's
\* bridge, is connected exactly when the parent had one, and starts with an empty
\* registry and a message counter of zero.
C27_IsolationStep ==
    /\ last'.op # "deliver" =>
          \A j \in 1..Len(instances) :
              (j # lastInstance' \/ last'.op = "forModule") => instances'[j] = instances[j]
    /\ last'.op = "deliver" =>
          \A j \in 1..Len(instances) :
              IF j \in Receivers(last'.args[1], last'.args[2])
              THEN instances'[j] = [instances[j] EXCEPT
                                      !.performanceMetrics = instances'[j].performanceMetrics]
              ELSE instances'[j] = instances[j]
    /\ last'.op = "forModule" =>
          LET parent == instances[lastInstance']
              child == instances'[Len(instances')]
          IN
          /\ Len(instances') = Len(instances) + 1
          /\ child.pluginId = parent.pluginId
          /\ child.moduleId = last'.args[1]
          /\ child.serviceBridge = parent.serviceBridge
          /\ InstanceAvailable(child) <=> parent.serviceBridge # NoBridge
          /\ child.subscriptions = <<>>
          /\ child.messageCount = 0

C27_InstancesIsolated == [][C27_IsolationStep]_vars

\* forModule on a parent that has sent a message and holds a subscription
C27_Witness ==
    /\ last.op = "forModule"
    /\ Len(instances) = 2
    /\ instances[lastInstance].messageCount > 0
    /\ instances[lastInstance].subscriptions # <<>>
    /\ InstanceAvailable(instances[2])

\* C29: getPerformanceMetrics never divides by zero: averageLatency is 0 whenever
\* messagesSent is 0 and totalLatency / messagesSent otherwise; errorRate is 0 whenever
\* messagesSent + messagesReceived is 0 and errorCount over that sum otherwise; neither is
\* ever NaN or Infinity.
C29_NoDivisionByZero ==
    LET m == getPerformanceMetrics
        sent == performanceMetrics.messagesSent
        total == performanceMetrics.messagesSent + performanceMetrics.messagesReceived
    IN
    /\ IsFiniteNumber(m.averageLatency) /\ IsFiniteNumber(m.errorRate)
    /\ sent = 0 => m.averageLatency = JSZero
    /\ sent > 0 => /\ m.averageLatency.den = sent
                   /\ m.averageLatency.num = performanceMetrics.totalLatency
    /\ total = 0 => m.errorRate = JSZero
    /\ total > 0 => /\ m.errorRate.den = total
                    /\ m.errorRate.num = performanceMetrics.errorCount

\* errors have been counted while no message has been sent or received
C29_Witness ==
    /\ performanceMetrics.errorCount > 0
    /\ performanceMetrics.messagesSent + performanceMetrics.messagesReceived = 0
    /\ getPerformanceMetrics.errorRate = JSZero

\* the number of active subscriptions that an instance of the variant reports
ReportedActive(variant) ==
    IF variant = "PluginEventService" THEN getServiceStats.activeSubscriptions
    ELSE getStatus.activeSubscriptions

\* a call of the operation that reached the Bridge and returned normally
Succeeded(l, op) ==
    /\ l.op = op /\ (OfPes(l) \/ OfSees(l))
    /\ l.code = "none"
    /\ Len(l.bridgeCalls) = 1 /\ ~l.bridgeCalls[1].threw

\* C28: the reported number of active subscriptions is the number of distinct callbacks
\* subscribed and not since unsubscribed.  Taken on two consecutive calls of one instance:
\* after a successful subscribe of a callback, a second successful subscribe of the same
\* callback does not raise the number, and a successful unsubscribe of that callback
\* lowers it by one.
C28_ActiveCountStep ==
    (/\ Succeeded(last, "subscribeToMessages")
     /\ last'.variant = last.variant)
    => /\ (Succeeded(last', "subscribeToMessages") /\ last'.args[1] = last.args[1])
          => ReportedActive(last.variant)' = ReportedActive(last.variant)
       /\ (Succeeded(last', "unsubscribeFromMessages") /\ last'.args[1] = last.args[1])
          => ReportedActive(last.variant)' = ReportedActive(last.variant) - 1

C28_ActiveCountIsDistinctCallbacks == [][C28_ActiveCountStep]_vars

\* C30: during subscribeToMessages(cb, {persist: true}) no live delivery is interleaved
\* with the backlog: of the invocations of cb that the call causes, every replay of a
\* queued envelope comes before any message that the Bridge delivers because of the new
\* subscription, also when the Bridge invokes the subscribed function inside
\* Bridge.subscribeToMessages.
C30_BacklogFirstStep ==
    (/\ IsSubscribe(last') /\ OfSees(last')
     /\ Truthy(last'.args[2].persist))
    => \A i \in 1..Len(last'.invoked), j \in 1..Len(last'.invoked) :
          (last'.invoked[i].via = "live" /\ last'.invoked[j].via = "replay") => j < i

C30_BacklogBeforeLive == [][C30_BacklogFirstStep]_vars

\* what the callback did in an invocation (it returned, where nothing else is recorded)
Did(inv) == IF "did" \in DOMAIN inv THEN inv.did ELSE "return"

\* a subscribeToMessages of ServiceExampleEventService whose Bridge call returned
SeesSubscribed(l) ==
    /\ IsSubscribe(l) /\ OfSees(l)
    /\ Len(l.bridgeCalls) >= 1 /\ ~l.bridgeCalls[1].threw

\* the invocations are the replay of the queue: one per entry, in the order of the queue
ReplayOf(invoked, queue) ==
    /\ Len(invoked) = Len(queue)
    /\ \A i \in 1..Len(queue) :
          /\ invoked[i].via = "replay"
          /\ invoked[i].message = queue[i].message
          /\ invoked[i].seq = queue[i].seq

\* C31: replay failures are isolated per envelope.  When the callback throws on some of
\* the replayed envelopes (and returns on the others), every envelope of the backlog is
\* still passed to the callback, in order, subscribeToMessages returns normally and the
\* replay queue is left as it was.
C31_ReplayFailureStep ==
    (/\ SeesSubscribed(last')
     /\ Truthy(last'.args[2].persist)
     /\ \A i \in 1..Len(last'.invoked) : Did(last'.invoked[i]) \in {"return", "throw"})
    => /\ ReplayOf(last'.invoked, messageQueue)
       /\ last'.code = "none"
       /\ messageQueue' = messageQueue

C31_ReplayFailuresIsolated == [][C31_ReplayFailureStep]_vars

\* the callback threw on the first of two replayed envelopes and received the second
C31_Witness ==
    /\ SeesSubscribed(last)
    /\ Len(last.invoked) = 2 /\ Len(messageQueue) = 2
    /\ Did(last.invoked[1]) = "throw"
    /\ last.invoked[2].via = "replay"
    /\ last.invoked[2].seq = messageQueue[2].seq

\* C35: replay terminates under re-entrancy.  When the callback, while being replayed to,
\* calls sendMessage with persist true (appending to the queue, possibly evicting) or
\* unsubscribeFromMessages, the replay finishes and has delivered each envelope of the
\* queue as it was at the start of the replay exactly once, in order, and none of the
\* envelopes appended during the replay.
C35_ReentrantReplayStep ==
    (/\ SeesSubscribed(last')
     /\ Truthy(last'.args[2].persist)
     /\ \E i \in 1..Len(last'.invoked) :
           Did(last'.invoked[i]) \in {"sendPersist", "unsubscribe"})
    => ReplayOf(last'.invoked, messageQueue)

C35_ReentrantReplayTerminates == [][C35_ReentrantReplayStep]_vars

\* the callback sent a persistent message on the first of two replayed envelopes, the
\* queue evicted its oldest entry, and the replay delivered the second envelope
C35_Witness ==
    /\ SeesSubscribed(last)
    /\ Len(last.invoked) = 2
    /\ Did(last.invoked[1]) = "sendPersist"
    /\ Len(messageQueue) = maxQueueSize
    /\ messageQueue[1].seq = last.invoked[2].seq
    /\ messageQueue[Len(messageQueue)].seq > last.invoked[2].seq

\* whether a flag (remote, persist) is set in the options a Bridge call carries; it is not
\* set when the call carries no options
OptionSet(options, flag) ==
    IF flag \in DOMAIN options THEN Truthy(options[flag]) ELSE FALSE

SameOptions(o1, o2) ==
    /\ OptionSet(o1, "remote") = OptionSet(o2, "remote")
    /\ OptionSet(o1, "persist") = OptionSet(o2, "persist")

\* C32: unsubscription options match subscription options.  Taken on two consecutive
\* calls of one instance: when a callback has just been subscribed at the Bridge with
\* some options, the Bridge.unsubscribeFromMessages call that unsubscribeAll (cleanup)
\* issues for that registration carries the same remote and persist.
C32_MatchingOptionsStep ==
    (/\ Succeeded(last, "subscribeToMessages")
     /\ IsUnsubscribeAll(last')
     /\ last'.variant = last.variant)
    => \A k \in 1..Len(last'.bridgeCalls) :
          last'.bridgeCalls[k].arg = last.bridgeCalls[1].arg
          => SameOptions(last'.bridgeCalls[k].options, last.bridgeCalls[1].options)

C32_UnsubscribeOptionsMatch == [][C32_MatchingOptionsStep]_vars

\* C33: a failed subscribe leaves the instance unchanged.  When Bridge.subscribeToMessages
\* throws, the registry is as it was before the call, so the number of active
\* subscriptions is the same as before.
C33_FailedSubscribeStep ==
    (/\ IsSubscribe(last') /\ (OfPes(last') \/ OfSees(last'))
     /\ BridgeThrew(last'))
    => /\ subscriptions' = subscriptions
       /\ subscribers' = subscribers
       /\ OfPes(last') => ReportedActive("PluginEventService")'
                           = ReportedActive("PluginEventService")
       /\ OfSees(last') => ReportedActive("ServiceExampleEventService")'
                            = ReportedActive("ServiceExampleEventService")

C33_FailedSubscribeLeavesRegistry == [][C33_FailedSubscribeStep]_vars

\* the bridges on which the callback is subscribed for the channel
SubscribedOn(listeners, cb, moduleId) ==
    {b \in AllBridges : [moduleId |-> moduleId, fn |-> cb] \in listeners[b]}

\* every Bridge call of the operation returned
AllReturned(l) == \A k \in 1..Len(l.bridgeCalls) : ~l.bridgeCalls[k].threw

\* C34: subscriptions follow the bridge they were made on.  After unsubscribeAll, or
\* unsubscribeFromMessages(cb), whose Bridge calls returned, no callback that was tracked
\* when unsubscribeAll was called (resp. cb, if it was tracked) is subscribed on any
\* bridge, also when setServiceBridge has replaced the bridge since the subscription.
C34_FollowBridgeStep ==
    (/\ OfPes(last') /\ isServiceAvailable
     /\ AllReturned(last'))
    => /\ last'.op = "unsubscribeAll"
          => \A i \in 1..Len(subscriptions) :
                SubscribedOn(bridgeListeners', subscriptions[i], PesModuleId) = {}
       /\ (IsUnsubscribe(last') /\ last'.args[1] \in Range(subscriptions))
          => SubscribedOn(bridgeListeners', last'.args[1], PesModuleId) = {}

C34_SubscriptionsFollowBridge == [][C34_FollowBridgeStep]_vars

\* C36: the monitoring log is bounded.  After any sequence of operations getEventLog()
\* holds at most maxLogSize entries (500 in the source), and they are the most recent
\* ones: the entries pushed last, in the order in which they were pushed.
C36_EventLogBounded ==
    monitoring =>
        /\ Len(getEventLog) <= maxLogSize
        /\ \A i \in 1..Len(getEventLog) :
              getEventLog[i].n = logged - Len(getEventLog) + i

\* C37: the pending queue of MessageQueue is bounded.  After every handler
\* queuedMessages.length is at most maxQueueSize and stats.queueSize equals
\* queuedMessages.length, and an arrival at capacity evicts the oldest queued message.
C37_QueueStep ==
    last'.variant = "MessageQueue"
    => /\ Len(messageQueueState'.queuedMessages) <= messageQueueState'.maxQueueSize
       /\ messageQueueState'.stats.queueSize = Len(messageQueueState'.queuedMessages)
       /\ (/\ last'.op = "handleIncomingMessage"
           /\ messageQueueState' # messageQueueState
           /\ Len(messageQueueState.queuedMessages) = messageQueueState.maxQueueSize)
          => /\ Len(messageQueueState'.queuedMessages) = messageQueueState.maxQueueSize
             /\ \A i \in 1..(messageQueueState.maxQueueSize - 1) :
                   messageQueueState'.queuedMessages[i] = messageQueueState.queuedMessages[i + 1]

C37_PendingQueueBounded == [][C37_QueueStep]_vars

NoChatMessageInFlight(state) ==
    \A target \in DOMAIN state.inFlight :
        \A i \in 1..Len(state.inFlight[target]) :
            state.inFlight[target][i].type # "chat.message"

ExactlyOneEnabled(state) == state.left.isEnabled # state.right.isEnabled

\* C38: chat turn-taking.  A chat sends only while it is enabled and is disabled after
\* sending; a chat becomes enabled only by receiving a chat.message of the other chat;
\* and whenever no chat message is in flight, exactly one of LeftChat and RightChat is
\* enabled, also after a send that failed at the Bridge.
C38_TurnStep ==
    last'.variant = "Chat"
    => /\ \A chat \in Chats :
            /\ (/\ last'.op = "handleSendMessage"
                /\ last'.args[1] = chat
                /\ last'.bridgeCalls # <<>>)
               => chatState[chat].isEnabled /\ ~chatState'[chat].isEnabled
            /\ (~chatState[chat].isEnabled /\ chatState'[chat].isEnabled)
               => /\ last'.op = "handleMessageReceived"
                  /\ last'.args[1] = chat
                  /\ last'.args[2].type = "chat.message"
                  /\ last'.args[2].sender = OtherChat(chat)
       /\ NoChatMessageInFlight(chatState') => ExactlyOneEnabled(chatState')

C38_ChatTurnTaking == [][C38_TurnStep]_vars

TimeoutsFor(confirmations, broadcastId, moduleId) ==
    {i \in 1..Len(confirmations) :
        /\ confirmations[i].broadcastId = broadcastId
        /\ confirmations[i].moduleId = moduleId
        /\ confirmations[i].status = "timeout"}

\* C39: confirmation timeout of BroadcastCenter.  When the timer of a broadcast fires,
\* every target of that broadcast with no confirmation recorded for its broadcastId
\* gets exactly one 'timeout' confirmation, and nothing else gets one: no target that
\* has a confirmation and no module that was not a target of that broadcast, whatever
\* happened to the target selection and whatever was broadcast in between.
C39_TimeoutStep ==
    (last'.variant = "BroadcastCenter" /\ last'.op = "handleConfirmationTimeout")
    => \E timer \in broadcastState.timers :
          LET before == broadcastState.confirmations
              after == broadcastState'.confirmations
              added == SubSeq(after, Len(before) + 1, Len(after))
              Recorded(moduleId) ==
                  \E i \in 1..Len(before) : /\ before[i].broadcastId = timer.id
                                            /\ before[i].moduleId = moduleId
          IN
          /\ timer.id = last'.args[1]
          /\ SubSeq(after, 1, Len(before)) = before
          /\ \A i \in 1..Len(timer.targets) :
                ~Recorded(timer.targets[i])
                => Cardinality(TimeoutsFor(added, timer.id, timer.targets[i])) = 1
          /\ \A i \in 1..Len(added) :
                /\ added[i].status = "timeout"
                /\ added[i].broadcastId = timer.id
                /\ Includes(timer.targets, added[i].moduleId)
                /\ ~Recorded(added[i].moduleId)

C39_ConfirmationTimeout == [][C39_TimeoutStep]_vars

====
